---- MODULE Spec2Model ----
(***************************************************************************)
(* Model of the graph tooling of koinon-rms (tools/graph):                 *)
(*   verify-contracts.py  - the contract verifier (five checks, exit code) *)
(*   merge-graph.py       - the backend/frontend graph merger              *)
(*   generate-backend.py  - the regex based backend graph generator        *)
(*                                                                         *)
(* Python strings are modelled as sequences of one-character strings, so   *)
(* that endswith, lower, replace, strip and the regular expressions are    *)
(* computed character by character as the code computes them.  A Python    *)
(* dict is modelled as a sequence of records in insertion order with       *)
(* pairwise distinct keys; a Python set as a TLA+ set (its iteration order *)
(* is a nondeterministic choice).                                          *)
(***************************************************************************)
EXTENDS Integers, Sequences, FiniteSets, TLC

(***************************************************************************)
(* Bounds of the model.                                                    *)
(***************************************************************************)
\* largest number of DTO records in an input graph of the verifier
MaxDtos == 2

\* largest number of edges in an input graph of the merger
MaxEdges == 2

(***************************************************************************)
(* Python str primitives on character sequences.                           *)
(***************************************************************************)
UpperToLower ==
    ("A" :> "a") @@ ("B" :> "b") @@ ("C" :> "c") @@ ("D" :> "d") @@
    ("E" :> "e") @@ ("F" :> "f") @@ ("G" :> "g") @@ ("H" :> "h") @@
    ("I" :> "i") @@ ("J" :> "j") @@ ("K" :> "k") @@ ("L" :> "l") @@
    ("M" :> "m") @@ ("N" :> "n") @@ ("O" :> "o") @@ ("P" :> "p") @@
    ("Q" :> "q") @@ ("R" :> "r") @@ ("S" :> "s") @@ ("T" :> "t") @@
    ("U" :> "u") @@ ("V" :> "v") @@ ("W" :> "w") @@ ("X" :> "x") @@
    ("Y" :> "y") @@ ("Z" :> "z")

\* str.lower() of one character
LowerChar(c) ==
    IF c \in DOMAIN UpperToLower THEN UpperToLower[c] ELSE c

\* str.lower()
Lower(s) ==
    [i \in 1..Len(s) |-> LowerChar(s[i])]

\* str.isupper() of one character
IsUpperChar(c) ==
    c \in DOMAIN UpperToLower

\* s[i:] with a 0-based Python index i >= 0
From(s, i) ==
    SubSeq(s, i + 1, Len(s))

\* str.endswith
EndsWith(s, suffix) ==
    /\ Len(s) >= Len(suffix)
    /\ SubSeq(s, Len(s) - Len(suffix) + 1, Len(s)) = suffix

\* str.startswith
StartsWith(s, prefix) ==
    /\ Len(s) >= Len(prefix)
    /\ SubSeq(s, 1, Len(prefix)) = prefix

\* the Python test `sub in s` on strings
Contains(s, sub) ==
    \E i \in 1..(Len(s) - Len(sub) + 1) : SubSeq(s, i, i + Len(sub) - 1) = sub

\* str.upper()
Upper(s) ==
    [i \in 1..Len(s) |->
        IF \E u \in DOMAIN UpperToLower : UpperToLower[u] = s[i]
        THEN CHOOSE u \in DOMAIN UpperToLower : UpperToLower[u] = s[i]
        ELSE s[i]]

\* str.replace(old, new) for a non-empty old: left to right, the
\* occurrences do not overlap and the replaced text is not rescanned
RECURSIVE StrReplace(_, _, _)
StrReplace(s, old, new) ==
    IF Len(s) < Len(old) THEN s
    ELSE IF StartsWith(s, old)
         THEN new \o StrReplace(From(s, Len(old)), old, new)
    ELSE <<Head(s)>> \o StrReplace(Tail(s), old, new)

\* str.lstrip(c) and str.rstrip(c) for one character c
RECURSIVE LStripChar(_, _)
LStripChar(s, c) ==
    IF s # <<>> /\ Head(s) = c THEN LStripChar(Tail(s), c) ELSE s

RECURSIVE RStripChar(_, _)
RStripChar(s, c) ==
    IF s # <<>> /\ s[Len(s)] = c
    THEN RStripChar(SubSeq(s, 1, Len(s) - 1), c) ELSE s

\* str.strip(c) for one character c
StripChar(s, c) ==
    RStripChar(LStripChar(s, c), c)

\* the elements of a sequence
Range(seq) ==
    {seq[i] : i \in 1..Len(seq)}

\* all sequences over S of length at most n
SeqsUpTo(S, n) ==
    UNION {[1..k -> S] : k \in 0..n}

\* a dict has pairwise distinct keys: the records of seq have distinct names
DistinctNames(seq) ==
    \A i, j \in 1..Len(seq) : seq[i].name = seq[j].name => i = j

\* all orders in which a Python set can be iterated
Orders(S) ==
    {o \in [1..Cardinality(S) -> S] : Range(o) = S}

(***************************************************************************)
(* String constants of verify-contracts.py.                                *)
(***************************************************************************)
sDto == <<"D","t","o">>
sRequestDto == <<"R","e","q","u","e","s","t","D","t","o">>
sResponseDto == <<"R","e","s","p","o","n","s","e","D","t","o">>
sId == <<"I","d">>
sInt == <<"i","n","t">>
sIdRoute == <<"{","i","d","}">>
sEnum == <<"E","n","u","m">>
sUnderscore == <<"_">>

\* the common base properties check 5 does not compare
BaseProperties ==
    { <<"I","d">>,
      <<"I","d","K","e","y">>,
      <<"G","u","i","d">>,
      <<"C","r","e","a","t","e","d","D","a","t","e","T","i","m","e">>,
      <<"M","o","d","i","f","i","e","d","D","a","t","e","T","i","m","e">> }

\* the binary-stream types check 5 does not compare
StreamTypes ==
    { <<"S","t","r","e","a","m">>,
      <<"F","i","l","e","S","t","r","e","a","m">>,
      <<"I","F","o","r","m","F","i","l","e">> }

\* the DTOs that intentionally have no frontend type
FRONTEND_ALLOWLIST ==
    {
      <<"A","t","t","e","n","d","a","n","c","e","A","n","a","l","y","t","i","c","s","D","t","o">>,
      <<"A","t","t","e","n","d","a","n","c","e","B","y","G","r","o","u","p","D","t","o">>,
      <<"A","t","t","e","n","d","a","n","c","e","S","u","m","m","a","r","y","D","t","o">>,
      <<"A","t","t","e","n","d","a","n","c","e","T","r","e","n","d","D","t","o">>,
      <<"A","u","d","i","t","L","o","g","E","x","p","o","r","t","R","e","q","u","e","s","t">>,
      <<"B","a","t","c","h","C","h","e","c","k","i","n","R","e","s","u","l","t","D","t","o">>,
      <<"B","a","t","c","h","F","i","l","t","e","r","R","e","q","u","e","s","t">>,
      <<"B","a","t","c","h","L","a","b","e","l","R","e","q","u","e","s","t","D","t","o">>,
      <<"B","a","t","c","h","S","t","a","t","e","m","e","n","t","R","e","q","u","e","s","t">>,
      <<"B","u","l","k","M","a","r","k","A","t","t","e","n","d","a","n","c","e","R","e","s","u","l","t","D","t","o">>,
      <<"B","u","l","k","U","p","d","a","t","e","P","r","e","f","e","r","e","n","c","e","s","D","t","o">>,
      <<"C","a","p","a","c","i","t","y","O","v","e","r","r","i","d","e","R","e","q","u","e","s","t","D","t","o">>,
      <<"C","r","e","a","t","e","F","a","m","i","l","y","A","d","d","r","e","s","s","R","e","q","u","e","s","t">>,
      <<"C","r","e","a","t","e","G","r","o","u","p","M","e","m","b","e","r","D","t","o">>,
      <<"C","r","e","a","t","e","N","o","t","i","f","i","c","a","t","i","o","n","D","t","o">>,
      <<"C","r","e","a","t","e","R","e","p","o","r","t","D","e","f","i","n","i","t","i","o","n","R","e","q","u","e","s","t">>,
      <<"C","r","e","a","t","e","R","e","p","o","r","t","S","c","h","e","d","u","l","e","R","e","q","u","e","s","t">>,
      <<"D","a","s","h","b","o","a","r","d","B","a","t","c","h","D","t","o">>,
      <<"E","m","a","i","l","A","t","t","a","c","h","m","e","n","t","D","t","o">>,
      <<"E","x","p","o","r","t","J","o","b","D","t","o">>,
      <<"I","m","p","o","r","t","F","a","m","i","l","y","R","e","s","u","l","t","D","t","o">>,
      <<"M","y","F","a","m","i","l","y","M","e","m","b","e","r","D","t","o">>,
      <<"M","y","I","n","v","o","l","v","e","m","e","n","t","G","r","o","u","p","D","t","o">>,
      <<"O","f","f","l","i","n","e","C","h","e","c","k","i","n","D","t","o">>,
      <<"P","e","r","s","o","n","G","r","o","u","p","M","e","m","b","e","r","s","h","i","p","D","t","o">>,
      <<"Q","u","e","u","e","d","S","m","s","D","t","o">>,
      <<"R","e","p","o","r","t","D","e","f","i","n","i","t","i","o","n","D","t","o">>,
      <<"R","e","p","o","r","t","R","u","n","D","t","o">>,
      <<"R","e","p","o","r","t","S","c","h","e","d","u","l","e","D","t","o">>,
      <<"R","u","n","R","e","p","o","r","t","R","e","q","u","e","s","t">>,
      <<"S","e","c","u","r","i","t","y","R","o","l","e","D","t","o">>,
      <<"S","t","a","r","t","E","x","p","o","r","t","R","e","q","u","e","s","t">>,
      <<"S","u","p","e","r","v","i","s","o","r","R","e","p","r","i","n","t","R","e","q","u","e","s","t">>,
      <<"S","y","s","t","e","m","S","t","a","t","i","s","t","i","c","s","D","t","o">>,
      <<"T","w","i","l","i","o","W","e","b","h","o","o","k","D","t","o">>,
      <<"U","p","d","a","t","e","G","r","o","u","p","M","e","m","b","e","r","D","t","o">>,
      <<"U","p","d","a","t","e","R","e","p","o","r","t","D","e","f","i","n","i","t","i","o","n","R","e","q","u","e","s","t">>,
      <<"U","p","d","a","t","e","R","e","p","o","r","t","S","c","h","e","d","u","l","e","R","e","q","u","e","s","t">>
    }

(***************************************************************************)
(* State.                                                                  *)
(***************************************************************************)
VARIABLES
    \* ---- verify-contracts.py ----
    vpc,         \* position of the verifier run (main, verify_all)
    vFile,       \* the graph file: does it exist, is it valid JSON
    vGraph,      \* the JSON object in the graph file (ContractVerifier.graph)
    violations,  \* ContractVerifier.violations: check key -> list of findings
    vRan,        \* the checks that have run, in the order they ran
    vExit        \* the exit code of the process, NoExit while it runs

VARIABLES
    \* ---- merge-graph.py ----
    mpc,              \* position of the merger run (main)
    mDisk,            \* the two input files and whether the output is writable
    backend_graph,    \* GraphMerger.backend_graph
    frontend_graph,   \* GraphMerger.frontend_graph
    inconsistencies,  \* GraphMerger.inconsistencies: four lists
    merged_graph,     \* GraphMerger.merged_graph
    mOutput,          \* the output file: the graph written, NotWritten before
    mStdout,          \* what the run printed to standard output, in order
    mPhases,          \* the phases of main entered so far, in order
    mExit             \* the exit code of the process, NoExit while it runs

VARIABLES
    \* ---- merge-graph.py: one call of GraphMerger._routes_match ----
    rpc,         \* position of the call
    rBackend,    \* backend_route, as the pieces it is written from
    rFrontend,   \* frontend_route, as the pieces it is written from
    rResult      \* the value returned, None before the call returns

VARIABLES
    \* ---- generate-backend.py: extract_constructor_dependencies ----
    dpc,           \* position of the call
    dContent,      \* the C# source text passed as content
    dependencies   \* the list returned, empty before the call returns

VARIABLES
    \* ---- generate-backend.py: BackendGraphGenerator ----
    gpc,           \* position in generate(): the stage that runs next
    gTree,         \* the source tree: the files of each directory
    gEntities,     \* BackendGraphGenerator.entities
    gDtos,         \* BackendGraphGenerator.dtos
    gServices,     \* BackendGraphGenerator.services
    gControllers,  \* BackendGraphGenerator.controllers
    gEdges,        \* BackendGraphGenerator.edges
    gStages,       \* the stages of generate() that have run, in order
    gGraph,        \* the dict generate() returned, NotGenerated before
    gRun,          \* 1 in the first run on the tree, 2 in the second
    gFirst         \* the dict the first run returned, NotGenerated before

VARIABLES
    \* ---- generate-backend.py: extract_class_body, _extract_balanced_parens ----
    bpc,         \* position of the call
    bFunction,   \* the function called
    bContent,    \* the C# source text passed as content
    bStart,      \* 0-based position of the opening delimiter, -1 if none
    bResult      \* the value returned, PyNone before the call returns

VARIABLES
    \* ---- tools/rag: index-codebase.py and reindex-changes.py ----
    ipc,           \* position in main()
    iScript,       \* the script that runs
    iFiles,        \* code_files / changed_files, in loop order
    iNext,         \* 1-based position of the next file of the loop
    iStore,        \* the points of the collection, NoCollection if none
    total_chunks,  \* main's running total
    iCounts,       \* the values index_file / reindex_file returned, in order
    iFailures,     \* the calls that raised, in order: [file, call, caught]
    iExit          \* the exit code of the process, NoExit while it runs

verVars == <<vpc, vFile, vGraph, violations, vRan, vExit>>

mrgVars == <<mpc, mDisk, backend_graph, frontend_graph, inconsistencies,
             merged_graph, mOutput, mStdout, mPhases, mExit>>

rtVars == <<rpc, rBackend, rFrontend, rResult>>

depVars == <<dpc, dContent, dependencies>>

genVars == <<gpc, gTree, gEntities, gDtos, gServices, gControllers, gEdges,
             gStages, gGraph, gRun, gFirst>>

balVars == <<bpc, bFunction, bContent, bStart, bResult>>

ragVars == <<ipc, iScript, iFiles, iNext, iStore, total_chunks, iCounts,
             iFailures, iExit>>

vars == <<verVars, mrgVars, rtVars, depVars, genVars,
          balVars,
          ragVars>>

\* the variables a run of the verifier leaves alone
notVerVars == <<mrgVars, rtVars, depVars, genVars,
                balVars,
                ragVars>>

\* the variables a run of the merger leaves alone
notMrgVars == <<verVars, rtVars, depVars, genVars,
                balVars,
                ragVars>>

\* the variables a call of _routes_match leaves alone
notRtVars == <<verVars, mrgVars, depVars, genVars,
               balVars,
               ragVars>>

\* the variables a call of extract_constructor_dependencies leaves alone
notDepVars == <<verVars, mrgVars, rtVars, genVars,
                balVars,
                ragVars>>

\* the variables a run of the backend generator leaves alone
notGenVars == <<verVars, mrgVars, rtVars, depVars,
                balVars,
                ragVars>>

\* the variables a call of the balanced extractions leaves alone
notBalVars == <<verVars, mrgVars, rtVars, depVars, genVars,
                ragVars>>

\* the variables a run of the indexing scripts leaves alone
notRagVars == <<verVars, mrgVars, rtVars, depVars, genVars, balVars>>

\* the process has not exited yet
NoExit == "none"

(***************************************************************************)
(* verify-contracts.py: helpers.                                           *)
(***************************************************************************)
\* flatten a sequence of sequences
RECURSIVE ConcatAll(_)
ConcatAll(seqs) ==
    IF seqs = <<>> THEN <<>> ELSE Head(seqs) \o ConcatAll(Tail(seqs))

\* self.graph.get(section, {})
GraphGet(graph, section) ==
    IF section \in graph.present THEN graph[section] ELSE <<>>

\* the keys of a dict
Keys(dict) ==
    {dict[i].name : i \in 1..Len(dict)}

\* dict[key] for a key of the dict
Lookup(dict, key) ==
    dict[CHOOSE i \in 1..Len(dict) : dict[i].name = key]

\* ContractViolation(check_name, severity, item, detail)
ContractViolation(check, severity, item, detail) ==
    [check |-> check, severity |-> severity, item |-> item, detail |-> detail]

\* the sections load_graph requires
RequiredSections == {"controllers", "dtos", "components", "hooks"}

\* the keys of ContractVerifier.violations, in dict order
CheckKeys == <<"check_1", "check_2", "check_3", "check_4", "check_5">>

\* the violations dict of __init__
NoViolations ==
    [k \in Range(CheckKeys) |-> <<>>]

(***************************************************************************)
(* verify-contracts.py: the five checks, each as the list of findings it   *)
(* appends.                                                                *)
(***************************************************************************)
\* check 1: controllers whose patterns lack the key response_envelope
ResponseEnvelopeFindings(graph) ==
    LET controllers == GraphGet(graph, "controllers")
        bad == SelectSeq(controllers,
                 LAMBDA c : "response_envelope" \notin Keys(c.patterns))
    IN [i \in 1..Len(bad) |->
          ContractViolation("Check 1", "FAIL", bad[i].name, "no_envelope")]

\* check 2, the test on one property: named Id, type contains int (lowered)
IsIntegerIdMutSuffix(prop_name, prop_type) ==
    EndsWith(prop_name, sId) /\ Contains(Lower(prop_type), sInt)

IsIntegerId(prop_name, prop_type) ==
    prop_name = sId /\ Contains(Lower(prop_type), sInt)

\* check 2: one finding per DTO property that is an integer Id
IntegerIdFindings(graph) ==
    LET dtos == GraphGet(graph, "dtos")
        OfDto(dto) ==
            LET bad == SelectSeq(dto.properties,
                         LAMBDA p : IsIntegerId(p.name, p.type))
            IN [i \in 1..Len(bad) |->
                  ContractViolation("Check 2", "FAIL", dto.name,
                      <<"integer_id", bad[i].name, bad[i].type>>)]
    IN ConcatAll([d \in 1..Len(dtos) |-> OfDto(dtos[d])])

\* check 3: one finding per endpoint whose route contains {id}
IdKeyRouteFindings(graph) ==
    LET controllers == GraphGet(graph, "controllers")
        OfController(c) ==
            LET bad == SelectSeq(c.endpoints,
                         LAMBDA e : Contains(e.route, sIdRoute))
            IN [i \in 1..Len(bad) |->
                  ContractViolation("Check 3", "FAIL",
                      <<c.name, bad[i].name>>, "id_route")]
    IN ConcatAll([c \in 1..Len(controllers) |-> OfController(controllers[c])])

\* check 4: one finding per component with apiCallsDirectly set
HookWrappingFindings(graph) ==
    LET components == GraphGet(graph, "components")
        bad == SelectSeq(components, LAMBDA c : c.apiCallsDirectly)
    IN [i \in 1..Len(bad) |->
          ContractViolation("Check 4", "FAIL", bad[i].name, "direct_api_call")]

\* _pascal_to_camel_case
Verifier_PascalToCamelCase(pascal) ==
    IF pascal = <<>> THEN pascal
    ELSE <<LowerChar(pascal[1])>> \o From(pascal, 1)

\* ContractVerifier._find_matching_type: the values it can return, {} for
\* None.  The fallback iterates a Python set, so among several names equal
\* up to case any one can be returned.
Verifier_FindMatchingTypeMutNoFallback(dto_name, available_types) ==
    LET without_suffix == SubSeq(dto_name, 1, Len(dto_name) - 3)
    IN IF dto_name \in available_types THEN {dto_name}
       ELSE IF EndsWith(dto_name, sDto) /\ without_suffix \in available_types
            THEN {without_suffix}
       ELSE {}

Verifier_FindMatchingType(dto_name, available_types) ==
    LET without_suffix == SubSeq(dto_name, 1, Len(dto_name) - 3)
        base_name == IF EndsWith(dto_name, sDto) THEN without_suffix
                     ELSE dto_name
    IN IF dto_name \in available_types THEN {dto_name}
       ELSE IF EndsWith(dto_name, sDto) /\ without_suffix \in available_types
            THEN {without_suffix}
       ELSE {a \in available_types : Lower(a) = Lower(base_name)}

\* ContractVerifier._compare_properties: the DTO properties reported missing
Verifier_CompareProperties(dto_properties, type_properties) ==
    SelectSeq(dto_properties,
        LAMBDA p :
            /\ p.name \notin BaseProperties
            /\ p.type \notin StreamTypes
            /\ \A t \in Keys(type_properties) :
                 Lower(t) # Lower(Verifier_PascalToCamelCase(p.name)))

\* a DTO that check 5 does not look at
SkippedByCheck5(dto_name) ==
    \/ dto_name \in FRONTEND_ALLOWLIST
    \/ EndsWith(dto_name, sRequestDto)
    \/ EndsWith(dto_name, sResponseDto)

\* check 5, first loop: the findings lists the loop over the DTOs can give
RECURSIVE DtoAlignmentFindings(_, _, _)
DtoAlignmentFindings(dtos, types, i) ==
    IF i > Len(dtos) THEN {<<>>}
    ELSE
      LET dto == dtos[i]
          matching == Verifier_FindMatchingType(dto.name, Keys(types))
          OfMatch(t) ==
              LET mismatches == Verifier_CompareProperties(
                                  dto.properties, Lookup(types, t).properties)
              IN [k \in 1..Len(mismatches) |->
                    ContractViolation("Check 5", "FAIL", <<dto.name, t>>,
                        <<"missing_property", mismatches[k].name>>)]
          heads ==
              IF SkippedByCheck5(dto.name) THEN {<<>>}
              ELSE IF matching = {}
                   THEN {<<ContractViolation("Check 5", "FAIL", dto.name,
                                             "no_frontend_type")>>}
              ELSE {OfMatch(t) : t \in matching}
      IN {h \o r : h \in heads, r \in DtoAlignmentFindings(dtos, types, i + 1)}

\* check 5, second loop: the WARN findings for one iteration order of the
\* set of frontend type names
TypeAlignmentWarnings(dtos, order) ==
    LET unmatched == SelectSeq(order,
            LAMBDA t :
                /\ ~StartsWith(t, sUnderscore)
                /\ ~Contains(t, sEnum)
                /\ Verifier_FindMatchingType(t, Keys(dtos)) = {})
    IN [k \in 1..Len(unmatched) |->
          ContractViolation("Check 5", "WARN", unmatched[k], "no_backend_dto")]

\* check 5: the findings lists check_type_alignment can append
TypeAlignmentFindings(graph) ==
    LET dtos == GraphGet(graph, "dtos")
        types == GraphGet(graph, "types")
    IN IF types = <<>> THEN {<<>>}
       ELSE {f \o w :
               f \in DtoAlignmentFindings(dtos, types, 1),
               w \in {TypeAlignmentWarnings(dtos, o) : o \in Orders(Keys(types))}}

\* _summarize: the number of findings of one severity over all checks
CountSeverity(viol, severity) ==
    Len(SelectSeq(ConcatAll([k \in 1..Len(CheckKeys) |-> viol[CheckKeys[k]]]),
                  LAMBDA v : v.severity = severity))

\* _summarize: the exit code
SummarizeMutCountsWarnings(viol) ==
    IF CountSeverity(viol, "FAIL") + CountSeverity(viol, "WARN") > 0
    THEN 1 ELSE 0

Summarize(viol) ==
    IF CountSeverity(viol, "FAIL") > 0 THEN 1 ELSE 0

(***************************************************************************)
(* verify-contracts.py: the run of main.                                   *)
(***************************************************************************)
\* ContractVerifier.__init__ / load_graph: exit 2 on a missing file, on
\* invalid JSON, or on a missing required section
LoadGraph ==
    /\ vpc = "load"
    /\ IF \/ ~vFile.exists
          \/ ~vFile.json
          \/ ~(RequiredSections \subseteq vGraph.present)
       THEN /\ vExit' = 2
            /\ vpc' = "exited"
       ELSE /\ vExit' = vExit
            /\ vpc' = "check_1"
    /\ UNCHANGED <<vFile, vGraph, violations, vRan, notVerVars>>

\* one check of verify_all: append its findings to its own list
RunCheck(key, findings, next) ==
    /\ vpc = key
    /\ violations' = [violations EXCEPT ![key] = @ \o findings]
    /\ vRan' = Append(vRan, key)
    /\ vpc' = next
    /\ UNCHANGED <<vFile, vGraph, vExit, notVerVars>>

check_response_envelopes ==
    RunCheck("check_1", ResponseEnvelopeFindings(vGraph), "check_2")

check_no_integer_ids_in_dtos ==
    RunCheck("check_2", IntegerIdFindings(vGraph), "check_3")

check_idkey_routes ==
    RunCheck("check_3", IdKeyRouteFindings(vGraph), "check_4")

check_hook_wrapping ==
    RunCheck("check_4", HookWrappingFindings(vGraph), "check_5")

check_type_alignment ==
    \E findings \in TypeAlignmentFindings(vGraph) :
        RunCheck("check_5", findings, "summarize")

\* verify_all returns _summarize(), main exits with it
VerifierExit ==
    /\ vpc = "summarize"
    /\ vExit' = Summarize(violations)
    /\ vpc' = "exited"
    /\ UNCHANGED <<vFile, vGraph, violations, vRan, notVerVars>>

(***************************************************************************)
(* verify-contracts.py: the graph files the model runs the verifier on.    *)
(***************************************************************************)
Prop(name, type) == [name |-> name, type |-> type]

pId == <<"I","d">>
pPersonId == <<"P","e","r","s","o","n","I","d">>
pName == <<"N","a","m","e">>
tInt == <<"i","n","t">>
tIntNullable == <<"i","n","t","?">>
tInt32 == <<"I","n","t","3","2">>
tString == <<"s","t","r","i","n","g">>
tPoint == <<"P","o","i","n","t">>

nADto == <<"A","D","t","o">>
nBDto == <<"B","D","t","o">>
nCRequestDto == <<"C","R","e","q","u","e","s","t","D","t","o">>
nQueuedSmsDto == <<"Q","u","e","u","e","d","S","m","s","D","t","o">>
nA == <<"A">>
nLowerA == <<"a">>
nZ == <<"Z">>
nUtil == <<"_","u">>

\* the DTO records the input graphs are built from
VerDtoPool ==
    { [name |-> nADto, properties |-> <<Prop(pId, tInt)>>],
      [name |-> nADto,
       properties |-> <<Prop(pId, tString), Prop(pPersonId, tInt),
                        Prop(pName, tString)>>],
      [name |-> nBDto, properties |-> <<Prop(pId, tIntNullable)>>],
      [name |-> nBDto, properties |-> <<Prop(pName, tPoint), Prop(pId, tInt32)>>],
      [name |-> nQueuedSmsDto, properties |-> <<Prop(pPersonId, tString)>>],
      [name |-> nCRequestDto, properties |-> <<Prop(pId, tPoint)>>] }

\* the dtos sections: at most MaxDtos records with distinct names
VerDtoInputs ==
    {d \in SeqsUpTo(VerDtoPool, MaxDtos) : DistinctNames(d)}

\* the controllers sections
VerControllerInputs ==
    { <<>>,
      << [name |-> "PeopleController",
          patterns |-> <<[name |-> "response_envelope", value |-> TRUE]>>,
          endpoints |-> <<[name |-> "Get",
                           route |-> <<"{","i","d","K","e","y","}">>]>>] >>,
      << [name |-> "GroupsController",
          patterns |-> <<[name |-> "idkey_routes", value |-> TRUE]>>,
          endpoints |-> <<>>] >>,
      << [name |-> "PeopleController",
          patterns |-> <<[name |-> "response_envelope", value |-> FALSE]>>,
          endpoints |-> <<[name |-> "Get", route |-> <<"{","i","d","}">>],
                          [name |-> "List", route |-> <<>>]>>] >> }

\* the components sections
VerComponentInputs ==
    { <<>>,
      << [name |-> "PersonList", apiCallsDirectly |-> FALSE] >>,
      << [name |-> "PersonList", apiCallsDirectly |-> FALSE],
         [name |-> "GroupList", apiCallsDirectly |-> TRUE] >> }

\* the types sections (frontend types: name and properties)
VerTypeInputs ==
    { <<>>,
      << [name |-> nA, properties |-> <<Prop(<<"n","a","m","e">>, tString)>>] >>,
      << [name |-> nLowerA, properties |-> <<>>],
         [name |-> nZ, properties |-> <<>>] >>,
      << [name |-> nA, properties |-> <<Prop(<<"n","a","m","e">>, tString)>>],
         [name |-> nLowerA, properties |-> <<>>],
         [name |-> nUtil, properties |-> <<>>] >> }

\* a graph object with the given sections present
VerGraph(present, controllers, dtos, components, types) ==
    [present |-> present, controllers |-> controllers, dtos |-> dtos,
     components |-> components, hooks |-> <<>>, types |-> types]

\* the graph objects: every section present (types optional) with any
\* content, or one required section missing
VerGraphInputs ==
    {VerGraph(RequiredSections \cup opt, c, d, k, IF opt = {} THEN <<>> ELSE t) :
        opt \in {{}, {"types"}}, c \in VerControllerInputs, d \in VerDtoInputs,
        k \in VerComponentInputs, t \in VerTypeInputs}
    \cup
    {VerGraph((RequiredSections \ {s}) \cup {"types"}, <<>>, <<>>, <<>>, <<>>) :
        s \in RequiredSections}

\* the graph of a file that cannot be read as JSON (self.graph stays None)
NoGraph == VerGraph({}, <<>>, <<>>, <<>>, <<>>)

VerifierInit ==
    /\ vpc = "load"
    /\ vFile \in [exists : BOOLEAN, json : BOOLEAN]
    /\ vGraph \in (IF vFile.exists /\ vFile.json THEN VerGraphInputs
                   ELSE {NoGraph})
    /\ violations = NoViolations
    /\ vRan = <<>>
    /\ vExit = NoExit

\* the verifier is not running
VerifierIdle ==
    /\ vpc = "idle"
    /\ vFile = [exists |-> FALSE, json |-> FALSE]
    /\ vGraph = NoGraph
    /\ violations = NoViolations
    /\ vRan = <<>>
    /\ vExit = NoExit

VerifierNext ==
    \/ LoadGraph
    \/ check_response_envelopes
    \/ check_no_integer_ids_in_dtos
    \/ check_idkey_routes
    \/ check_hook_wrapping
    \/ check_type_alignment
    \/ VerifierExit

(***************************************************************************)
(* verify-contracts.py: the five check methods of a loaded ContractVerifier *)
(* called in any order, each once, then _summarize.                        *)
(***************************************************************************)
\* the graphs of the calls: every required section and types present
AnyOrderGraphInputs ==
    {VerGraph(RequiredSections \cup {"types"}, c, d, k, t) :
        c \in { << [name |-> "PeopleController",
                    patterns |-> <<[name |-> "response_envelope",
                                    value |-> TRUE]>>,
                    endpoints |-> <<[name |-> "Get",
                                     route |-> <<"{","i","d","K","e","y","}">>]>>] >>,
                << [name |-> "GroupsController",
                    patterns |-> <<[name |-> "idkey_routes", value |-> TRUE]>>,
                    endpoints |-> <<[name |-> "Get",
                                     route |-> <<"{","i","d","}">>]>>] >> },
        d \in { <<>>,
                << [name |-> nADto,
                    properties |-> <<Prop(pId, tInt), Prop(pName, tString)>>] >>,
                << [name |-> nBDto, properties |-> <<Prop(pName, tPoint)>>],
                   [name |-> nCRequestDto,
                    properties |-> <<Prop(pId, tString)>>] >> },
        k \in VerComponentInputs \ {<<>>},
        t \in VerTypeInputs}

AnyOrderInit ==
    /\ vpc = "checks"
    /\ vFile = [exists |-> TRUE, json |-> TRUE]
    /\ vGraph \in AnyOrderGraphInputs
    /\ violations = NoViolations
    /\ vRan = <<>>
    /\ vExit = NoExit

\* one check method called: it appends its findings to its own list
AnyOrderCheckMutSharedList(key, findings) ==
    /\ vpc = "checks"
    /\ key \notin Range(vRan)
    /\ violations' = [violations EXCEPT !["check_1"] = @ \o findings]
    /\ vRan' = Append(vRan, key)
    /\ vpc' = IF Len(vRan) + 1 = Len(CheckKeys) THEN "summarize" ELSE "checks"
    /\ UNCHANGED <<vFile, vGraph, vExit, notVerVars>>

AnyOrderCheck(key, findings) ==
    /\ vpc = "checks"
    /\ key \notin Range(vRan)
    /\ violations' = [violations EXCEPT ![key] = @ \o findings]
    /\ vRan' = Append(vRan, key)
    /\ vpc' = IF Len(vRan) + 1 = Len(CheckKeys) THEN "summarize" ELSE "checks"
    /\ UNCHANGED <<vFile, vGraph, vExit, notVerVars>>

call_check_response_envelopes ==
    AnyOrderCheck("check_1", ResponseEnvelopeFindings(vGraph))

call_check_no_integer_ids_in_dtos ==
    AnyOrderCheck("check_2", IntegerIdFindings(vGraph))

call_check_idkey_routes ==
    AnyOrderCheck("check_3", IdKeyRouteFindings(vGraph))

call_check_hook_wrapping ==
    AnyOrderCheck("check_4", HookWrappingFindings(vGraph))

call_check_type_alignment ==
    \E findings \in TypeAlignmentFindings(vGraph) :
        AnyOrderCheck("check_5", findings)

AnyOrderNext ==
    \/ call_check_response_envelopes
    \/ call_check_no_integer_ids_in_dtos
    \/ call_check_idkey_routes
    \/ call_check_hook_wrapping
    \/ call_check_type_alignment
    \/ VerifierExit

(***************************************************************************)
(* merge-graph.py: matching of DTOs, types, properties and routes.         *)
(***************************************************************************)
\* None.  Every use of an optional name in merge-graph.py tests its truth
\* value, which is the same for None and for the empty string.
None == <<>>

\* a dict with no key ({}), as a JSON object with no section
EmptyDict == [present |-> {}]

sSlash == <<"/">>
sParam == <<"{","p","a","r","a","m","}">>

\* _normalize_dto_name: the name without a trailing Dto
NormalizeDtoNameMutKeepsSuffix(dto_name) ==
    dto_name

NormalizeDtoName(dto_name) ==
    IF EndsWith(dto_name, sDto)
    THEN SubSeq(dto_name, 1, Len(dto_name) - 3) ELSE dto_name

\* _normalize_type_name
NormalizeTypeName(type_name) ==
    type_name

\* the first element of a sequence of names that satisfies Test, else None
FirstName(names, Test(_)) ==
    LET hits == SelectSeq(names, Test)
    IN IF hits = <<>> THEN None ELSE Head(hits)

\* the keys of a dict in insertion order
KeySeq(dict) ==
    [i \in 1..Len(dict) |-> dict[i].name]

\* GraphMerger._find_matching_type
Merger_FindMatchingType(frontend, dto_name) ==
    LET types == GraphGet(frontend, "types")
    IN IF dto_name \in Keys(types) THEN dto_name
       ELSE FirstName(KeySeq(types),
              LAMBDA t : Lower(NormalizeTypeName(t))
                           = Lower(NormalizeDtoName(dto_name)))

\* GraphMerger._find_matching_dto
Merger_FindMatchingDtoMutExactOnly(backend, type_name) ==
    IF type_name \in Keys(GraphGet(backend, "dtos")) THEN type_name ELSE None

Merger_FindMatchingDto(backend, type_name) ==
    LET dtos == GraphGet(backend, "dtos")
    IN IF type_name \in Keys(dtos) THEN type_name
       ELSE IF (type_name \o sDto) \in Keys(dtos) THEN type_name \o sDto
       ELSE FirstName(KeySeq(dtos),
              LAMBDA d : Lower(NormalizeDtoName(d)) = Lower(type_name))

sMissingIn == <<" ","m","i","s","s","i","n","g"," ","i","n"," ">>

\* f"{dto_name}.{prop_name} missing in {type_name}"
MismatchMessage(dto_name, prop_name, type_name) ==
    dto_name \o <<".">> \o prop_name \o sMissingIn \o type_name

\* GraphMerger._compare_properties: the mismatches, in property order
Merger_ComparePropertiesMutCamelOnly(backend, frontend, dto_name, type_name) ==
    LET dtos == GraphGet(backend, "dtos")
        types == GraphGet(frontend, "types")
    IN IF dto_name \notin Keys(dtos) \/ type_name \notin Keys(types)
       THEN <<>>
       ELSE
         LET type_props == Keys(Lookup(types, type_name).properties)
             missing == SelectSeq(KeySeq(Lookup(dtos, dto_name).properties),
                 LAMBDA n : n = <<>>
                            \/ (<<LowerChar(n[1])>> \o From(n, 1))
                                  \notin type_props)
         IN [i \in 1..Len(missing) |->
               MismatchMessage(dto_name, missing[i], type_name)]

Merger_CompareProperties(backend, frontend, dto_name, type_name) ==
    LET dtos == GraphGet(backend, "dtos")
        types == GraphGet(frontend, "types")
    IN IF dto_name \notin Keys(dtos) \/ type_name \notin Keys(types)
       THEN <<>>
       ELSE
         LET type_props == Keys(Lookup(types, type_name).properties)
             TsPropName(prop_name) ==
                 IF prop_name # <<>>
                 THEN <<LowerChar(prop_name[1])>> \o From(prop_name, 1)
                 ELSE <<>>
             missing == SelectSeq(KeySeq(Lookup(dtos, dto_name).properties),
                 LAMBDA n : TsPropName(n) \notin type_props
                            /\ n \notin type_props)
         IN [i \in 1..Len(missing) |->
               MismatchMessage(dto_name, missing[i], type_name)]

\* re.sub(r"\{[^}]+\}", "{param}", route): every { followed by at least one
\* character other than } and then a } is replaced, left to right
RECURSIVE route_to_pattern(_)
route_to_pattern(route) ==
    IF route = <<>> THEN <<>>
    ELSE
      LET closing == {j \in 2..Len(route) : route[j] = "}"}
          first == CHOOSE j \in closing : \A k \in closing : j <= k
      IN IF Head(route) = "{" /\ closing # {} /\ first >= 3
         THEN sParam \o route_to_pattern(From(route, first))
         ELSE <<Head(route)>> \o route_to_pattern(Tail(route))

\* the normal form _routes_match compares: // replaced by /, slashes at
\* both ends stripped
NormalizeRouteMutNoStrip(route) ==
    StrReplace(route, <<"/","/">>, sSlash)

NormalizeRoute(route) ==
    StripChar(StrReplace(route, <<"/","/">>, sSlash), "/")

\* a match of the backend route against the start of the frontend route
RoutesMatchMutBackendPrefix(backend_route, frontend_route) ==
    StartsWith(route_to_pattern(NormalizeRoute(frontend_route)),
               route_to_pattern(NormalizeRoute(backend_route)))

\* GraphMerger._routes_match
RoutesMatchMutNoParams(backend_route, frontend_route) ==
    NormalizeRoute(backend_route) = NormalizeRoute(frontend_route)

RoutesMatch(backend_route, frontend_route) ==
    \/ NormalizeRoute(backend_route) = NormalizeRoute(frontend_route)
    \/ route_to_pattern(NormalizeRoute(backend_route))
         = route_to_pattern(NormalizeRoute(frontend_route))

sNoFrontendApiFunction ==
    <<" ","(","n","o"," ","f","r","o","n","t","e","n","d"," ",
      "a","p","i","_","f","u","n","c","t","i","o","n",")">>

\* f"{endpoint_method} {full_route} (no frontend api_function)"
MissingEndpointMessage(endpoint_method, full_route) ==
    endpoint_method \o <<" ">> \o full_route \o sNoFrontendApiFunction

\* GraphMerger._detect_endpoint_coverage: the uncovered endpoints
DetectEndpointCoverageMutMethodCase(backend, frontend) ==
    LET controllers == GraphGet(backend, "controllers")
        api_functions == GraphGet(frontend, "api_functions")
        FullRoute(c, e) ==
            StrReplace(c.route \o sSlash \o e.route, <<"/","/">>, sSlash)
        Covered(c, e) ==
            \E f \in 1..Len(api_functions) :
                /\ api_functions[f].method = e.method
                /\ RoutesMatch(FullRoute(c, e), api_functions[f].endpoint)
        OfController(c) ==
            LET bad == SelectSeq(c.endpoints, LAMBDA e : ~Covered(c, e))
            IN [i \in 1..Len(bad) |->
                  MissingEndpointMessage(Upper(bad[i].method),
                                         FullRoute(c, bad[i]))]
    IN ConcatAll([c \in 1..Len(controllers) |-> OfController(controllers[c])])

DetectEndpointCoverage(backend, frontend) ==
    LET controllers == GraphGet(backend, "controllers")
        api_functions == GraphGet(frontend, "api_functions")
        FullRoute(c, e) ==
            StrReplace(c.route \o sSlash \o e.route, <<"/","/">>, sSlash)
        Covered(c, e) ==
            \E f \in 1..Len(api_functions) :
                /\ Upper(api_functions[f].method) = Upper(e.method)
                /\ RoutesMatch(FullRoute(c, e), api_functions[f].endpoint)
        OfController(c) ==
            LET bad == SelectSeq(c.endpoints, LAMBDA e : ~Covered(c, e))
            IN [i \in 1..Len(bad) |->
                  MissingEndpointMessage(Upper(bad[i].method),
                                         FullRoute(c, bad[i]))]
    IN ConcatAll([c \in 1..Len(controllers) |-> OfController(controllers[c])])

\* detect_inconsistencies: what it appends to each of the four lists
DetectedInconsistencies(backend, frontend) ==
    LET dto_names == KeySeq(GraphGet(backend, "dtos"))
        type_names == KeySeq(GraphGet(frontend, "types"))
        matched == SelectSeq(dto_names,
            LAMBDA d : Merger_FindMatchingType(frontend, d) # None)
    IN [dtos_without_types |->
            SelectSeq(dto_names,
                LAMBDA d : Merger_FindMatchingType(frontend, d) = None),
        types_without_dtos |->
            SelectSeq(type_names,
                LAMBDA t : Merger_FindMatchingDto(backend, t) = None),
        property_mismatches |->
            ConcatAll([i \in 1..Len(matched) |->
                Merger_CompareProperties(backend, frontend, matched[i],
                    Merger_FindMatchingType(frontend, matched[i]))]),
        missing_endpoints |-> DetectEndpointCoverage(backend, frontend)]

\* the inconsistencies dict of __init__
NoInconsistencies ==
    [dtos_without_types |-> <<>>, types_without_dtos |-> <<>>,
     property_mismatches |-> <<>>, missing_endpoints |-> <<>>]

\* the keys of the inconsistencies dict, in dict order
InconsistencyKeys ==
    <<"dtos_without_types", "types_without_dtos", "property_mismatches",
      "missing_endpoints">>

\* print_inconsistency_report: total_issues
TotalIssues(inc) ==
    Len(inc.dtos_without_types) + Len(inc.types_without_dtos)
      + Len(inc.property_mismatches) + Len(inc.missing_endpoints)

(***************************************************************************)
(* merge-graph.py: merge, report, and the run of main.                     *)
(***************************************************************************)
\* the values datetime.now() can give
Times == {"t1", "t2"}

\* the output file before save has written it
NotWritten == [present |-> {"<not written>"}]

\* merge: the merged edge list, backend edges then frontend edges
MergedEdgesMutDedup(backend, frontend) ==
    LET all == GraphGet(backend, "edges") \o GraphGet(frontend, "edges")
        firsts == {i \in 1..Len(all) : \A j \in 1..(i - 1) : all[j] # all[i]}
        Keep(n) == CHOOSE i \in firsts :
                       Cardinality({j \in firsts : j < i}) = n - 1
    IN [n \in 1..Cardinality(firsts) |-> all[Keep(n)]]

MergedEdges(backend, frontend) ==
    GraphGet(backend, "edges") \o GraphGet(frontend, "edges")

sDtoColon == <<"d","t","o",":">>
sTypeColon == <<"t","y","p","e",":">>

\* merge: the cross_layer_mappings dict, f"dto:{dto_name}" ->
\* f"type:{matching_type}", in the key order of dtos
CrossLayerMappingsMutExactOnly(backend, frontend) ==
    LET matched == SelectSeq(KeySeq(GraphGet(backend, "dtos")),
            LAMBDA d : d \in Keys(GraphGet(frontend, "types")))
    IN [i \in 1..Len(matched) |->
          [name |-> sDtoColon \o matched[i],
           value |-> sTypeColon \o matched[i]]]

CrossLayerMappings(backend, frontend) ==
    LET matched == SelectSeq(KeySeq(GraphGet(backend, "dtos")),
            LAMBDA d : Merger_FindMatchingType(frontend, d) # None)
    IN [i \in 1..Len(matched) |->
          [name |-> sDtoColon \o matched[i],
           value |-> sTypeColon
                       \o Merger_FindMatchingType(frontend, matched[i])]]

\* merge: the merged graph written to self.merged_graph
MergeMutOnlyPresent(backend, frontend, now) ==
    [present |-> {"version", "generated_at", "edges", "cross_layer_mappings",
                  "stats"}
                 \cup (backend.present
                         \cap {"entities", "dtos", "services", "controllers"})
                 \cup (frontend.present
                         \cap {"hooks", "api_functions", "components"}),
     version |-> "1.0",
     generated_at |-> now,
     entities |-> GraphGet(backend, "entities"),
     dtos |-> GraphGet(backend, "dtos"),
     services |-> GraphGet(backend, "services"),
     controllers |-> GraphGet(backend, "controllers"),
     hooks |-> GraphGet(frontend, "hooks"),
     api_functions |-> GraphGet(frontend, "api_functions"),
     components |-> GraphGet(frontend, "components"),
     edges |-> MergedEdges(backend, frontend),
     cross_layer_mappings |-> CrossLayerMappings(backend, frontend)]

MergeMutCopiesTypes(backend, frontend, now) ==
    [present |-> {"version", "generated_at", "entities", "dtos", "services",
                  "controllers", "hooks", "api_functions", "components",
                  "types", "edges", "cross_layer_mappings", "stats"},
     version |-> "1.0",
     generated_at |-> now,
     entities |-> GraphGet(backend, "entities"),
     dtos |-> GraphGet(backend, "dtos"),
     services |-> GraphGet(backend, "services"),
     controllers |-> GraphGet(backend, "controllers"),
     hooks |-> GraphGet(frontend, "hooks"),
     api_functions |-> GraphGet(frontend, "api_functions"),
     components |-> GraphGet(frontend, "components"),
     types |-> GraphGet(frontend, "types"),
     edges |-> MergedEdges(backend, frontend),
     cross_layer_mappings |-> CrossLayerMappings(backend, frontend)]

Merge(backend, frontend, now) ==
    [present |-> {"version", "generated_at", "entities", "dtos", "services",
                  "controllers", "hooks", "api_functions", "components",
                  "edges", "cross_layer_mappings", "stats"},
     version |-> "1.0",
     generated_at |-> now,
     entities |-> GraphGet(backend, "entities"),
     dtos |-> GraphGet(backend, "dtos"),
     services |-> GraphGet(backend, "services"),
     controllers |-> GraphGet(backend, "controllers"),
     hooks |-> GraphGet(frontend, "hooks"),
     api_functions |-> GraphGet(frontend, "api_functions"),
     components |-> GraphGet(frontend, "components"),
     edges |-> MergedEdges(backend, frontend),
     cross_layer_mappings |-> CrossLayerMappings(backend, frontend),
     stats |-> [entities |-> Len(GraphGet(backend, "entities")),
                dtos |-> Len(GraphGet(backend, "dtos")),
                services |-> Len(GraphGet(backend, "services")),
                controllers |-> Len(GraphGet(backend, "controllers")),
                types |-> Len(GraphGet(frontend, "types")),
                api_functions |-> Len(GraphGet(frontend, "api_functions")),
                hooks |-> Len(GraphGet(frontend, "hooks")),
                components |-> Len(GraphGet(frontend, "components")),
                total_edges |-> Len(MergedEdges(backend, frontend))]]

\* print_inconsistency_report: the header, one block per non-empty list,
\* the summary line
ReportOutputMutOnlyIssues(inc) ==
    IF TotalIssues(inc) = 0 THEN <<>>
    ELSE <<[kind |-> "report_header"], [kind |-> "report_total"]>>

ReportOutput(inc) ==
    LET nonempty == SelectSeq(InconsistencyKeys, LAMBDA k : inc[k] # <<>>)
    IN <<[kind |-> "report_header"]>>
       \o [i \in 1..Len(nonempty) |->
             [kind |-> "report_list", list |-> nonempty[i],
              items |-> inc[nonempty[i]]]]
       \o <<[kind |-> "report_total", total |-> TotalIssues(inc)]>>

\* main: where the run goes after load_graphs returned ok
AfterLoadMutNoReturn(ok) ==
    "detect"

AfterLoad(ok) ==
    IF ok THEN "detect" ELSE "exited"

\* main: the exit code of a run that loaded, merged and saved
SuccessExitCodeMutIssues(inc) ==
    IF TotalIssues(inc) > 0 THEN 1 ELSE 0

SuccessExitCode(inc) ==
    0

\* main: load_graphs.  The backend file is read first; a missing file or
\* invalid JSON makes load_graphs return False and main return 1.
load_graphs ==
    /\ mpc = "load"
    /\ mPhases' = Append(mPhases, "load")
    /\ LET backend_ok == mDisk.backend.status = "ok"
           ok == backend_ok /\ mDisk.frontend.status = "ok"
       IN /\ backend_graph' = IF backend_ok THEN mDisk.backend.graph
                              ELSE backend_graph
          /\ frontend_graph' = IF ok THEN mDisk.frontend.graph
                               ELSE frontend_graph
          /\ mpc' = AfterLoad(ok)
          /\ mExit' = IF AfterLoad(ok) = "exited" THEN 1 ELSE mExit
    /\ UNCHANGED <<mDisk, inconsistencies, merged_graph, mOutput, mStdout,
                   notMrgVars>>

\* main: detect_inconsistencies extends the four lists
detect_inconsistencies ==
    /\ mpc = "detect"
    /\ mPhases' = Append(mPhases, "detect")
    /\ inconsistencies' =
         [k \in DOMAIN inconsistencies |->
            inconsistencies[k]
              \o DetectedInconsistencies(backend_graph, frontend_graph)[k]]
    /\ mpc' = "merge"
    /\ UNCHANGED <<mDisk, backend_graph, frontend_graph, merged_graph,
                   mOutput, mStdout, mExit, notMrgVars>>

\* main: merge always returns True
merge ==
    /\ mpc = "merge"
    /\ mPhases' = Append(mPhases, "merge")
    /\ \E now \in Times :
         merged_graph' = Merge(backend_graph, frontend_graph, now)
    /\ mpc' = "save"
    /\ UNCHANGED <<mDisk, backend_graph, frontend_graph, inconsistencies,
                   mOutput, mStdout, mExit, notMrgVars>>

\* main: save writes the merged graph; on an IOError it returns False and
\* main returns 1
save ==
    /\ mpc = "save"
    /\ mPhases' = Append(mPhases, "save")
    /\ IF mDisk.writable
       THEN /\ mOutput' = merged_graph
            /\ mpc' = "report"
            /\ mExit' = mExit
       ELSE /\ mOutput' = mOutput
            /\ mpc' = "exited"
            /\ mExit' = 1
    /\ UNCHANGED <<mDisk, backend_graph, frontend_graph, inconsistencies,
                   merged_graph, mStdout, notMrgVars>>

\* main: print the report, the output path and the summary, return 0
print_inconsistency_report ==
    /\ mpc = "report"
    /\ mPhases' = Append(mPhases, "report")
    /\ mStdout' = mStdout \o ReportOutput(inconsistencies)
                    \o <<[kind |-> "saved_to"], [kind |-> "summary"]>>
    /\ mExit' = SuccessExitCode(inconsistencies)
    /\ mpc' = "exited"
    /\ UNCHANGED <<mDisk, backend_graph, frontend_graph, inconsistencies,
                   merged_graph, mOutput, notMrgVars>>

MergerNext ==
    \/ load_graphs
    \/ detect_inconsistencies
    \/ merge
    \/ save
    \/ print_inconsistency_report

(***************************************************************************)
(* merge-graph.py: the input files the model runs the merger on.           *)
(***************************************************************************)
\* the edges the input edge lists are built from (opaque to the merger)
MrgEdgePool ==
    { [source |-> "ADto", target |-> "A", relationship |-> "maps_to"],
      [source |-> "PersonList", target |-> "usePeople", relationship |-> "uses"] }

\* the edge lists: at most MaxEdges edges, repetitions allowed
MrgEdgeInputs ==
    SeqsUpTo(MrgEdgePool, MaxEdges)

mGET == <<"G","E","T">>
mGetLower == <<"g","e","t">>
mPOST == <<"P","O","S","T">>

\* the backend dtos sections
MrgDtoInputs ==
    { <<>>,
      << [name |-> nADto,
          properties |-> <<Prop(pName, tString), Prop(pPersonId, tInt)>>] >>,
      << [name |-> nADto,
          properties |-> <<Prop(pName, tString), Prop(pPersonId, tInt)>>],
         [name |-> nBDto, properties |-> <<Prop(pId, tInt)>>] >> }

\* the backend controllers sections
MrgControllerInputs ==
    { <<>>,
      << [name |-> "PController", route |-> <<"/","p">>,
          endpoints |->
            << [name |-> "Get", method |-> mGET,
                route |-> <<"{","i","d","K","e","y","}">>],
               [name |-> "Create", method |-> mPOST, route |-> <<>>] >>] >> }

\* the frontend types sections
MrgTypeInputs ==
    { <<>>,
      << [name |-> nLowerA,
          properties |-> <<Prop(<<"n","a","m","e">>, tString)>>],
         [name |-> nZ, properties |-> <<>>] >>,
      << [name |-> nADto,
          properties |-> <<Prop(<<"N","a","m","e">>, tString),
                           Prop(<<"p","e","r","s","o","n","I","D">>, tString)>>],
         [name |-> <<"B">>,
          properties |-> <<Prop(<<"i","d">>, tString)>>] >> }

\* the frontend api_functions sections
MrgApiFunctionInputs ==
    { <<>>,
      << [name |-> "getP", method |-> mGetLower,
          endpoint |-> <<"p","/","{","i","d","}","/">>],
         [name |-> "listP", method |-> mGET, endpoint |-> <<"/","p">>] >> }

\* a backend graph object with every section present
BackendGraph(dtos, controllers, edges) ==
    [present |-> {"version", "generated_at", "entities", "dtos", "services",
                  "controllers", "edges", "summary"},
     entities |-> <<[name |-> nA]>>, dtos |-> dtos, services |-> <<>>,
     controllers |-> controllers, edges |-> edges]

\* a frontend graph object with every section present
FrontendGraph(types, api_functions, edges) ==
    [present |-> {"types", "api_functions", "hooks", "components", "edges"},
     types |-> types, api_functions |-> api_functions,
     hooks |-> <<[name |-> "usePeople"]>>,
     components |-> <<[name |-> "PersonList"]>>, edges |-> edges]

\* the backend files that load: any content, or the JSON object {}
MrgBackendInputs ==
    {BackendGraph(d, c, e) :
        d \in MrgDtoInputs, c \in MrgControllerInputs, e \in MrgEdgeInputs}
    \cup {EmptyDict}

\* the frontend files that load: any content, or the JSON object {}
MrgFrontendInputs ==
    {FrontendGraph(t, f, e) :
        t \in MrgTypeInputs, f \in MrgApiFunctionInputs, e \in MrgEdgeInputs}
    \cup {EmptyDict}

\* an input file: a JSON object, a missing file, or a file that is not JSON
MrgFiles(graphs) ==
    {[status |-> "ok", graph |-> g] : g \in graphs}
    \cup {[status |-> st, graph |-> EmptyDict] : st \in {"missing", "invalid"}}

MergerInit ==
    /\ mpc = "load"
    /\ mDisk \in [backend : MrgFiles(MrgBackendInputs),
                  frontend : MrgFiles(MrgFrontendInputs),
                  writable : BOOLEAN]
    /\ backend_graph = EmptyDict
    /\ frontend_graph = EmptyDict
    /\ inconsistencies = NoInconsistencies
    /\ merged_graph = EmptyDict
    /\ mOutput = NotWritten
    /\ mStdout = <<>>
    /\ mPhases = <<>>
    /\ mExit = NoExit

\* the merger is not running
MergerIdle ==
    /\ mpc = "idle"
    /\ mDisk = [backend |-> [status |-> "missing", graph |-> EmptyDict],
                frontend |-> [status |-> "missing", graph |-> EmptyDict],
                writable |-> FALSE]
    /\ backend_graph = EmptyDict
    /\ frontend_graph = EmptyDict
    /\ inconsistencies = NoInconsistencies
    /\ merged_graph = EmptyDict
    /\ mOutput = NotWritten
    /\ mStdout = <<>>
    /\ mPhases = <<>>
    /\ mExit = NoExit

(***************************************************************************)
(* merge-graph.py: the input files the matching rules are checked on.      *)
(* Three families of loadable files: DTO and type names, DTO and type      *)
(* properties, controller endpoints and api functions.                     *)
(***************************************************************************)
\* the most DTOs and the most types of a graph of the first family
MaxDetNames == 2

\* the most properties of a DTO and of a type of the second family
MaxDetProps == 2

\* the most endpoints of the first controller of the third family
MaxDetEndpoints == 2

\* the sequences over S of length at most n without a repeated element:
\* the key orders of the dicts with at most n keys from S
DistinctSeqsUpTo(S, n) ==
    {s \in SeqsUpTo(S, n) : \A i, j \in 1..Len(s) : s[i] = s[j] => i = j}

nLowerADTO == <<"a","D","T","O">>
nLowerAdto == <<"a","d","t","o">>
nB == <<"B">>
pLowerName == <<"n","a","m","e">>
pLowerPersonId == <<"p","e","r","s","o","n","I","d">>
pPersonID == <<"p","e","r","s","o","n","I","D">>

DetDtoNames == {nADto, nA, nBDto, nLowerADTO}
DetTypeNames == {nA, nLowerA, nADto, nLowerAdto, nB}
DetDtoPropertyNames == {pName, pPersonId}
DetTypePropertyNames == {pLowerName, pName, pLowerPersonId, pPersonID}

\* a dtos or types section: the names in key order, each with the
\* properties given, all of type string
DetSection(names, property_names) ==
    [i \in 1..Len(names) |->
       [name |-> names[i],
        properties |-> [k \in 1..Len(property_names) |->
                          Prop(property_names[k], tString)]]]

\* first family: the names vary
DetNameGraphs ==
    [backend :
       {BackendGraph(DetSection(d, <<pName>>), <<>>, <<>>) :
          d \in DistinctSeqsUpTo(DetDtoNames, MaxDetNames)},
     frontend :
       {FrontendGraph(DetSection(t, <<pLowerName>>), <<>>, <<>>) :
          t \in DistinctSeqsUpTo(DetTypeNames, MaxDetNames)}]

\* second family: the properties of ADto and of its type A vary
DetPropertyGraphs ==
    [backend :
       {BackendGraph(DetSection(<<nADto>>, p), <<>>, <<>>) :
          p \in DistinctSeqsUpTo(DetDtoPropertyNames, MaxDetProps)},
     frontend :
       {FrontendGraph(DetSection(<<nA>>, p), <<>>, <<>>) :
          p \in DistinctSeqsUpTo(DetTypePropertyNames, MaxDetProps)}]

\* third family: the endpoints and the api functions vary
DetEndpointPool ==
    { [name |-> "Get", method |-> mGET,
       route |-> <<"{","i","d","K","e","y","}">>],
      [name |-> "Create", method |-> mPOST, route |-> <<>>],
      [name |-> "List", method |-> mGetLower, route |-> <<"/">>],
      [name |-> "Find", method |-> mGET, route |-> <<"q">>] }

DetControllerInputs ==
    LET First(route, endpoints) ==
            [name |-> "PController", route |-> route, endpoints |-> endpoints]
        Second ==
            [name |-> "QController", route |-> <<"q">>,
             endpoints |-> << [name |-> "Get", method |-> mGET,
                               route |-> <<>>] >>]
    IN {<<>>}
       \cup {<<First(r, e)>> :
               r \in {<<"/","p">>, <<"p","/">>, <<>>},
               e \in SeqsUpTo(DetEndpointPool, MaxDetEndpoints)}
       \cup {<<First(r, e), Second>> :
               r \in {<<"/","p">>},
               e \in SeqsUpTo(DetEndpointPool, MaxDetEndpoints)}

DetApiFunctionPool ==
    { [method |-> mGetLower, endpoint |-> <<"p","/","{","i","d","}","/">>],
      [method |-> mGET, endpoint |-> <<"/","p">>],
      [method |-> mPOST, endpoint |-> <<"p">>],
      [method |-> mPOST, endpoint |-> <<"/","q">>],
      [method |-> mGET, endpoint |-> <<"q">>] }

DetApiFunctionInputs ==
    {<<>>}
    \cup {<< [name |-> "f1", method |-> f.method, endpoint |-> f.endpoint] >> :
            f \in DetApiFunctionPool}
    \cup {<< [name |-> "f1", method |-> f.method, endpoint |-> f.endpoint],
             [name |-> "f2", method |-> g.method, endpoint |-> g.endpoint] >> :
            f \in DetApiFunctionPool, g \in DetApiFunctionPool}

DetEndpointGraphs ==
    [backend :
       {BackendGraph(<<>>, c, <<>>) : c \in DetControllerInputs},
     frontend :
       {FrontendGraph(<<>>, f, <<>>) : f \in DetApiFunctionInputs}]

\* the two files of a run: both load, the output can be written
DetectionDisks ==
    {[backend |-> [status |-> "ok", graph |-> g.backend],
      frontend |-> [status |-> "ok", graph |-> g.frontend],
      writable |-> TRUE] :
        g \in DetNameGraphs \cup DetPropertyGraphs \cup DetEndpointGraphs}

DetectionInit ==
    /\ mpc = "load"
    /\ mDisk \in DetectionDisks
    /\ backend_graph = EmptyDict
    /\ frontend_graph = EmptyDict
    /\ inconsistencies = NoInconsistencies
    /\ merged_graph = EmptyDict
    /\ mOutput = NotWritten
    /\ mStdout = <<>>
    /\ mPhases = <<>>
    /\ mExit = NoExit

(***************************************************************************)
(* merge-graph.py: detect_inconsistencies and merge called on one          *)
(* GraphMerger, after load_graphs, in either order (main calls them in the *)
(* order detect, merge; the tests call each of them alone).                *)
(***************************************************************************)
\* the four fields of a GraphMerger the two methods read or write
GraphMergerFields ==
    [backend_graph |-> backend_graph, frontend_graph |-> frontend_graph,
     inconsistencies |-> inconsistencies, merged_graph |-> merged_graph]

\* the fields after detect_inconsistencies(): the four lists are extended
AfterDetectInconsistencies(self) ==
    [self EXCEPT !.inconsistencies =
       [k \in DOMAIN self.inconsistencies |->
          self.inconsistencies[k]
            \o DetectedInconsistencies(self.backend_graph,
                                        self.frontend_graph)[k]]]

\* the fields after merge(): every key of merged_graph is assigned
AfterMergeMutResetsLists(self, now) ==
    [self EXCEPT !.merged_graph =
                    Merge(self.backend_graph, self.frontend_graph, now),
                 !.inconsistencies = NoInconsistencies]

AfterMerge(self, now) ==
    [self EXCEPT !.merged_graph =
                    Merge(self.backend_graph, self.frontend_graph, now)]

\* the fields are stored back
StoreFields(self) ==
    /\ backend_graph' = self.backend_graph
    /\ frontend_graph' = self.frontend_graph
    /\ inconsistencies' = self.inconsistencies
    /\ merged_graph' = self.merged_graph

\* the most DTOs and the most types of the graphs the two are called on
MaxCallNames == 2

\* the loaded graphs: DTOs with and without a type, types with and without
\* a DTO, properties that agree and that differ, an endpoint with and
\* without an api function, edges in both graphs
CallsDisks ==
    LET controllers ==
          << [name |-> "PController", route |-> <<"/","p">>,
              endpoints |-> << [name |-> "Get", method |-> mGET,
                                route |-> <<"{","i","d","K","e","y","}">>],
                               [name |-> "Create", method |-> mPOST,
                                route |-> <<>>] >>] >>
        api_functions ==
          << [name |-> "f1", method |-> mGetLower,
              endpoint |-> <<"p","/","{","i","d","}","/">>] >>
        backend_edges ==
          << [source |-> "ADto", target |-> "A", relationship |-> "maps_to"] >>
        frontend_edges ==
          << [source |-> "PersonList", target |-> "usePeople",
              relationship |-> "uses"] >>
    IN {[backend |-> [status |-> "ok", graph |-> b],
         frontend |-> [status |-> "ok", graph |-> f],
         writable |-> TRUE] :
          b \in {BackendGraph(DetSection(d, <<pName, pPersonId>>), c.c, c.e) :
                   d \in DistinctSeqsUpTo({nADto, nBDto}, MaxCallNames),
                   c \in {[c |-> <<>>, e |-> <<>>],
                          [c |-> controllers, e |-> backend_edges]}},
          f \in {FrontendGraph(DetSection(t, p), a.a, a.e) :
                   t \in DistinctSeqsUpTo({nA, nLowerAdto, nB}, MaxCallNames),
                   p \in {<<pLowerName, pLowerPersonId>>, <<pName>>},
                   a \in {[a |-> <<>>, e |-> <<>>],
                          [a |-> api_functions, e |-> frontend_edges]}}}

CallsInit ==
    /\ mpc = "load"
    /\ mDisk \in CallsDisks
    /\ backend_graph = EmptyDict
    /\ frontend_graph = EmptyDict
    /\ inconsistencies = NoInconsistencies
    /\ merged_graph = EmptyDict
    /\ mOutput = NotWritten
    /\ mStdout = <<>>
    /\ mPhases = <<>>
    /\ mExit = NoExit

\* load_graphs() on two files that load
call_load_graphs ==
    /\ mpc = "load"
    /\ mDisk.backend.status = "ok" /\ mDisk.frontend.status = "ok"
    /\ mPhases' = Append(mPhases, "load")
    /\ backend_graph' = mDisk.backend.graph
    /\ frontend_graph' = mDisk.frontend.graph
    /\ mpc' = "calls"
    /\ UNCHANGED <<mDisk, inconsistencies, merged_graph, mOutput, mStdout,
                   mExit, notMrgVars>>

call_detect_inconsistencies ==
    /\ mpc = "calls"
    /\ "detect" \notin Range(mPhases)
    /\ mPhases' = Append(mPhases, "detect")
    /\ StoreFields(AfterDetectInconsistencies(GraphMergerFields))
    /\ UNCHANGED <<mpc, mDisk, mOutput, mStdout, mExit, notMrgVars>>

call_merge ==
    /\ mpc = "calls"
    /\ "merge" \notin Range(mPhases)
    /\ mPhases' = Append(mPhases, "merge")
    /\ \E now \in Times : StoreFields(AfterMerge(GraphMergerFields, now))
    /\ UNCHANGED <<mpc, mDisk, mOutput, mStdout, mExit, notMrgVars>>

CallsNext ==
    \/ call_load_graphs
    \/ call_detect_inconsistencies
    \/ call_merge

(***************************************************************************)
(* verify-contracts.py and merge-graph.py on the same DTOs and types: the  *)
(* merger runs on a backend file with the DTOs and a frontend file with    *)
(* the types, the verifier on a graph file with both sections.             *)
(***************************************************************************)
AlignDtoNames == DetDtoNames \cup {nCRequestDto}

AlignmentInit ==
    \E d \in DistinctSeqsUpTo(AlignDtoNames, MaxDetNames),
       t \in DistinctSeqsUpTo(DetTypeNames, MaxDetNames) :
        /\ mpc = "load"
        /\ mDisk = [backend |->
                      [status |-> "ok",
                       graph |-> BackendGraph(DetSection(d, <<pName>>),
                                              <<>>, <<>>)],
                    frontend |->
                      [status |-> "ok",
                       graph |-> FrontendGraph(DetSection(t, <<pLowerName>>),
                                               <<>>, <<>>)],
                    writable |-> TRUE]
        /\ backend_graph = EmptyDict
        /\ frontend_graph = EmptyDict
        /\ inconsistencies = NoInconsistencies
        /\ merged_graph = EmptyDict
        /\ mOutput = NotWritten
        /\ mStdout = <<>>
        /\ mPhases = <<>>
        /\ mExit = NoExit
        /\ vpc = "load"
        /\ vFile = [exists |-> TRUE, json |-> TRUE]
        /\ vGraph = VerGraph(RequiredSections \cup {"types"}, <<>>,
                             DetSection(d, <<pName>>), <<>>,
                             DetSection(t, <<pLowerName>>))
        /\ violations = NoViolations
        /\ vRan = <<>>
        /\ vExit = NoExit

\* the merger runs, then the verifier
AlignmentNext ==
    \/ MergerNext
    \/ (mpc = "exited" /\ VerifierNext)

(***************************************************************************)
(* merge-graph.py: one call of _routes_match on two route strings.         *)
(***************************************************************************)
\* the longest route, in pieces
MaxPieces == 3

sIdPlaceholder == <<"{","i","d","}">>
sIdKeyPlaceholder == <<"{","i","d","K","e","y","}">>

\* what routes are written from: slashes, literal characters, placeholders
SlashPieces == { <<"/">>, <<"/","/">> }
LiteralPieces == { <<"a">> }
PlaceholderPieces == { sIdPlaceholder, sIdKeyPlaceholder }
RoutePieces == SlashPieces \cup LiteralPieces \cup PlaceholderPieces

\* the route string written from a sequence of pieces
RECURSIVE RouteText(_)
RouteText(pieces) ==
    IF pieces = <<>> THEN <<>>
    ELSE Head(pieces) \o RouteText(Tail(pieces))

RouteInputs == SeqsUpTo(RoutePieces, MaxPieces)

RoutesInit ==
    /\ rpc = "call"
    /\ rBackend \in RouteInputs
    /\ rFrontend \in RouteInputs
    /\ rResult = None

\* no call of _routes_match is in progress
RoutesIdle ==
    /\ rpc = "idle"
    /\ rBackend = <<>>
    /\ rFrontend = <<>>
    /\ rResult = None

\* the most pieces of a route of the calls that test the relation
MaxRelationPieces == 2

RelationInputs == SeqsUpTo(RoutePieces, MaxRelationPieces)

RelationInit ==
    /\ rpc = "call"
    /\ rBackend \in RelationInputs
    /\ rFrontend \in RelationInputs
    /\ rResult = None

\* GraphMerger._routes_match(backend_route, frontend_route)
routes_match ==
    /\ rpc = "call"
    /\ rResult' = RoutesMatch(RouteText(rBackend), RouteText(rFrontend))
    /\ rpc' = "returned"
    /\ UNCHANGED <<rBackend, rFrontend, notRtVars>>

RoutesNext ==
    routes_match

(***************************************************************************)
(* generate-backend.py: CSharpParser.extract_constructor_dependencies.     *)
(***************************************************************************)
\* the most parameters of a primary constructor
MaxParams == 2

LowerLetters == { UpperToLower[c] : c \in DOMAIN UpperToLower }
UpperLetters == DOMAIN UpperToLower
Digits == {"0","1","2","3","4","5","6","7","8","9"}

\* \s
IsSpace(c) == c \in {" ", "\t", "\n", "\r"}

\* \w
IsWordChar(c) == c \in LowerLetters \cup UpperLetters \cup Digits \cup {"_"}

\* [A-Za-z0-9._<>,\[\]\s]
IsTypeChar(c) ==
    \/ c \in LowerLetters \cup UpperLetters \cup Digits
    \/ c \in {".", "_", "<", ">", ",", "[", "]"}
    \/ IsSpace(c)

\* [a-z_]
IsLowerOrUnderscore(c) == c \in LowerLetters \cup {"_"}

\* str.strip()
RECURSIVE LStripSpace(_)
LStripSpace(s) ==
    IF s # <<>> /\ IsSpace(Head(s)) THEN LStripSpace(Tail(s)) ELSE s

RECURSIVE RStripSpace(_)
RStripSpace(s) ==
    IF s # <<>> /\ IsSpace(s[Len(s)])
    THEN RStripSpace(SubSeq(s, 1, Len(s) - 1))
    ELSE s

StripSpace(s) ==
    RStripSpace(LStripSpace(s))

sRequired == <<"r","e","q","u","i","r","e","d">>
DeclarationKeywords == { <<"c","l","a","s","s">>, <<"r","e","c","o","r","d">>, <<"s","t","r","u","c","t">> }

NoMatch == [matched |-> FALSE, group |-> <<>>]

\* the outer pattern (?:class|record|struct)\s+\w+\s*\(([^)]+)\), searched
\* in a content that holds at most one declaration, at its start: group 1
\* is the text between the first ( and the first ) after it
ConstructorMatch(content) ==
    LET opens == {i \in 1..Len(content) : content[i] = "("}
        open == CHOOSE i \in opens : \A k \in opens : i <= k
        closes == {j \in (open + 1)..Len(content) : content[j] = ")"}
        close == CHOOSE j \in closes : \A k \in closes : j <= k
        header == SubSeq(content, 1, open - 1)
        \* keyword, \s+, \w+, \s*
        headerOk ==
          \E kw \in DeclarationKeywords :
            \E a \in (Len(kw) + 1)..Len(header) :
              \E b \in (a + 1)..(Len(header) + 1) :
                /\ StartsWith(header, kw)
                /\ \A i \in (Len(kw) + 1)..a : IsSpace(header[i])
                /\ b - 1 >= a + 1
                /\ \A i \in (a + 1)..(b - 1) : IsWordChar(header[i])
                /\ \A i \in b..Len(header) : IsSpace(header[i])
    IN IF opens = {} THEN NoMatch
       ELSE IF closes = {} \/ close = open + 1 \/ ~headerOk THEN NoMatch
       ELSE [matched |-> TRUE, group |-> SubSeq(content, open + 1, close - 1)]

\* CSharpParser._split_parameters: split at the commas outside <> and []
RECURSIVE SplitFrom(_, _, _)
SplitFrom(params_str, current, bracket_count) ==
    IF params_str = <<>>
    THEN IF current # <<>> THEN <<current>> ELSE <<>>
    ELSE LET char == Head(params_str)
             rest == Tail(params_str)
         IN IF char \in {"<", "["}
            THEN SplitFrom(rest, Append(current, char), bracket_count + 1)
            ELSE IF char \in {">", "]"}
            THEN SplitFrom(rest, Append(current, char), bracket_count - 1)
            ELSE IF char = "," /\ bracket_count = 0
            THEN <<current>> \o SplitFrom(rest, <<>>, 0)
            ELSE SplitFrom(rest, Append(current, char), bracket_count)

SplitParameters(params_str) ==
    SplitFrom(params_str, <<>>, 0)

\* ([A-Za-z0-9._<>,\[\]\s]+?)\s+[a-z_] tried at position p of param: the
\* lazy group takes the fewest characters after which whitespace and then
\* a lowercase letter or an underscore follow
TypeGroupAt(param, p) ==
    LET fits(k) ==
          /\ \A i \in p..(p + k - 1) : IsTypeChar(param[i])
          /\ \E m \in 1..(Len(param) - (p + k - 1)) :
               /\ \A i \in (p + k)..(p + k + m - 1) : IsSpace(param[i])
               /\ p + k + m <= Len(param)
               /\ IsLowerOrUnderscore(param[p + k + m])
        lengths == {k \in 1..(Len(param) - p + 1) : fits(k)}
        least == CHOOSE k \in lengths : \A n \in lengths : k <= n
    IN IF lengths = {} THEN NoMatch
       ELSE [matched |-> TRUE, group |-> SubSeq(param, p, p + least - 1)]

\* re.match(r'(?:required\s+)?([A-Za-z0-9._<>,\[\]\s]+?)\s+[a-z_]', param):
\* the optional group is tried first, with the most whitespace first; when
\* the rest of the pattern fails after it, the matcher backtracks and
\* tries the pattern without the optional group
TypeMatch(param) ==
    LET widths == {w \in 1..(Len(param) - Len(sRequired)) :
                     /\ StartsWith(param, sRequired)
                     /\ \A i \in 1..w : IsSpace(param[Len(sRequired) + i])}
        taken == {w \in widths :
                    TypeGroupAt(param, Len(sRequired) + w + 1).matched}
        widest == CHOOSE w \in taken : \A n \in taken : w >= n
    IN IF taken # {}
       THEN TypeGroupAt(param, Len(sRequired) + widest + 1)
       ELSE TypeGroupAt(param, 1)

\* the loop over the parameters, lines 239-247
RECURSIVE DependenciesOf(_)
DependenciesOf(params) ==
    IF params = <<>> THEN <<>>
    ELSE LET param == StripSpace(Head(params))
             type_match == TypeMatch(param)
             param_type == StripSpace(type_match.group)
         IN (IF param # <<>> /\ type_match.matched /\ param_type # <<>>
             THEN <<param_type>> ELSE <<>>)
              \o DependenciesOf(Tail(params))

\* CSharpParser.extract_constructor_dependencies(content)
ExtractConstructorDependencies(content) ==
    LET match == ConstructorMatch(content)
    IN IF match.matched
       THEN DependenciesOf(SplitParameters(match.group))
       ELSE <<>>

\* ---- inputs: declarations with a primary constructor ----
sString == <<"s","t","r","i","n","g">>
sIService == <<"I","S","e","r","v","i","c","e">>
sIMap == <<"I","M","a","p","<","K",","," ","V",">">>
sRecordPersonDto == <<"r","e","c","o","r","d"," ","P","e","r","s","o","n","D","t","o">>

ParamModifiers == { <<>>, sRequired \o <<" ">> }
ParamTypes == { sString, sIService, sIMap }
ParamNames == { <<"N","a","m","e">>, <<"S","v","c">>, <<"s","v","c">> }

\* modifier, type, space, name
ParamTexts ==
    { m \o t \o <<" ">> \o n :
        m \in ParamModifiers, t \in ParamTypes, n \in ParamNames }

\* the parameters of a constructor, separated by a comma and a space
RECURSIVE JoinParams(_)
JoinParams(params) ==
    IF params = <<>> THEN <<>>
    ELSE IF Len(params) = 1 THEN Head(params)
    ELSE Head(params) \o <<",", " ">> \o JoinParams(Tail(params))

\* record PersonDto(...), and record PersonDto { } for no parameters
Declaration(params) ==
    IF params = <<>>
    THEN sRecordPersonDto \o <<" ", "{", " ", "}">>
    ELSE sRecordPersonDto \o <<"(">> \o JoinParams(params) \o <<")">>

DepsContentInputs ==
    { Declaration(params) : params \in SeqsUpTo(ParamTexts, MaxParams) }

DepsInit ==
    /\ dpc = "call"
    /\ dContent \in DepsContentInputs
    /\ dependencies = <<>>

\* no call of extract_constructor_dependencies is in progress
DepsIdle ==
    /\ dpc = "idle"
    /\ dContent = <<>>
    /\ dependencies = <<>>

extract_constructor_dependencies ==
    /\ dpc = "call"
    /\ dependencies' = ExtractConstructorDependencies(dContent)
    /\ dpc' = "returned"
    /\ UNCHANGED <<dContent, notDepVars>>

DepsNext ==
    extract_constructor_dependencies

(***************************************************************************)
(* generate-backend.py: CSharpParser.extract_class_body and                *)
(* CSharpParser._extract_balanced_parens.                                  *)
(***************************************************************************)
\* the longest text after a declaration header, and the longest text
\* handed to _extract_balanced_parens
MaxBodyLen == 4

\* Python's None where the empty string is another value: no text holds a
\* piece of more than one character
PyNone == << "None" >>

\* content[a:b] for 0 <= a
Slice(content, a, b) ==
    SubSeq(content, a + 1, b)

\* one pass of the while loop of extract_class_body (lines 85-89) and of
\* _extract_balanced_parens (lines 110-114): the counter after the
\* character ch has been read
DepthAfterMutFirstClose(count, ch, open, close) ==
    IF ch = close THEN count - 1 ELSE count

DepthAfter(count, ch, open, close) ==
    IF ch = open THEN count + 1
    ELSE IF ch = close THEN count - 1
    ELSE count

\* the while loop: pos and the counter when the loop is left (pos 0-based)
RECURSIVE ScanBalanced(_, _, _, _, _)
ScanBalanced(content, pos, count, open, close) ==
    IF pos < Len(content) /\ count > 0
    THEN ScanBalanced(content, pos + 1,
                      DepthAfter(count, content[pos + 1], open, close),
                      open, close)
    ELSE [pos |-> pos, count |-> count]

\* the first 0-based position p >= from with content[p] not a white space
\* character, Len(content) when there is none: where a greedy \s* ends
RECURSIVE SkipSpace(_, _)
SkipSpace(content, from) ==
    IF from < Len(content) /\ IsSpace(content[from + 1])
    THEN SkipSpace(content, from + 1)
    ELSE from

\* the positions at which s occurs in content (0-based start)
Occurrences(content, s) ==
    {p \in 0..(Len(content) - Len(s)) : Slice(content, p, p + Len(s)) = s}

\* (?:\([^)]*\))?\s*(?::[^{]+)?\s*{ tried at position p, which the \s* after
\* the class name has reached: the end of the match, -1 when it fails.
\* The optional groups are tried before they are left out; [^)]* stops at
\* the first ) and [^{]+ at the first {, and the white space between the
\* groups can be taken by one \s* only, so each choice ends in one place.
HeaderTailEnd(content, p) ==
    LET At(q) == IF q < Len(content) THEN content[q + 1] ELSE ""
        \* \s*{ at q
        Brace(q) ==
            IF At(SkipSpace(content, q)) = "{"
            THEN SkipSpace(content, q) + 1 ELSE -1
        \* (?::[^{]+)?\s*{ at q, q not a white space position
        Inheritance(q) ==
            LET opens == {o \in (q + 1)..(Len(content) - 1) :
                              content[o + 1] = "{"}
                open == CHOOSE o \in opens : \A k \in opens : o <= k
            IN IF At(q) = ":" /\ opens # {} /\ open >= q + 2
               THEN open + 1
               ELSE Brace(q)
        \* \s*(?::[^{]+)?\s*{ at q
        AfterParens(q) ==
            IF Inheritance(SkipSpace(content, q)) # -1
            THEN Inheritance(SkipSpace(content, q))
            ELSE Brace(q)
        closes == {c \in (p + 1)..(Len(content) - 1) : content[c + 1] = ")"}
        close == CHOOSE c \in closes : \A k \in closes : c <= k
    IN IF At(p) = "(" /\ closes # {} /\ AfterParens(close + 1) # -1
       THEN AfterParens(close + 1)
       ELSE AfterParens(p)

\* re.search of the pattern of extract_class_body (line 74): the end of the
\* leftmost match, -1 when there is none.  The optional modifiers before
\* the keyword do not move the end of a match; a match starts at a keyword
\* followed by \s+, the class name and \s*.
ClassHeaderMatchEnd(content, class_name) ==
    LET NameEnd(kw, p) ==
            LET n == SkipSpace(content, p + Len(kw))
            IN IF /\ n > p + Len(kw)
                  /\ Slice(content, n, n + Len(class_name)) = class_name
               THEN SkipSpace(content, n + Len(class_name))
               ELSE -1
        \* the name is followed by \s*, which gives back nothing the rest
        \* of the pattern could use
        EndAt(kw, p) ==
            IF NameEnd(kw, p) = -1 THEN -1
            ELSE HeaderTailEnd(content, NameEnd(kw, p))
        starts == {p \in 0..Len(content) :
                      \E kw \in DeclarationKeywords :
                          /\ p \in Occurrences(content, kw)
                          /\ EndAt(kw, p) # -1}
        start == CHOOSE p \in starts : \A k \in starts : p <= k
        keyword == CHOOSE kw \in DeclarationKeywords :
                       /\ start \in Occurrences(content, kw)
                       /\ EndAt(kw, start) # -1
    IN IF starts = {} THEN -1 ELSE EndAt(keyword, start)

\* CSharpParser.extract_class_body
ExtractClassBody(content, class_name) ==
    LET start_pos == ClassHeaderMatchEnd(content, class_name)
        scan == ScanBalanced(content, start_pos, 1, "{", "}")
    IN IF start_pos = -1 THEN PyNone
       ELSE IF scan.count = 0 THEN Slice(content, start_pos, scan.pos - 1)
       ELSE PyNone

\* CSharpParser._extract_balanced_parens
ExtractBalancedParens(content, start_pos) ==
    LET scan == ScanBalanced(content, start_pos + 1, 1, "(", ")")
    IN IF start_pos >= Len(content) \/ content[start_pos + 1] # "("
       THEN <<>>
       ELSE IF scan.count = 0
            THEN Slice(content, start_pos + 1, scan.pos - 1)
            ELSE <<>>

\* ---- the texts of the calls ----
BodyChars == {"{", "}", "(", ")", "a", " "}

sClassA == <<"c","l","a","s","s"," ","A">>
sRecordA == <<"r","e","c","o","r","d"," ","A">>
sClassName == <<"A">>

\* "{ a { b } c }" and the same text written with parentheses
sNestedBraces ==
    <<"{"," ","a"," ","{"," ","b"," ","}"," ","c"," ","}">>
sNestedParens ==
    <<"("," ","a"," ","("," ","b"," ",")"," ","c"," ",")">>

BodyTexts ==
    SeqsUpTo(BodyChars, MaxBodyLen) \cup {sNestedBraces, sNestedParens}

ClassBodyContents ==
    {header \o text : header \in {sClassA, sRecordA}, text \in BodyTexts}

BalancedInit ==
    /\ bpc = "call"
    /\ \/ bFunction = "extract_class_body" /\ bContent \in ClassBodyContents
       \/ bFunction = "_extract_balanced_parens" /\ bContent \in BodyTexts
    /\ bStart = -1
    /\ bResult = PyNone

\* no call of the two functions is in progress
BalancedIdle ==
    /\ bpc = "idle"
    /\ bFunction = ""
    /\ bContent = <<>>
    /\ bStart = -1
    /\ bResult = PyNone

\* a call extract_class_body(content, "A"); bStart is the position of the
\* opening brace the scan starts after, -1 when the header is not found
extract_class_body ==
    /\ bpc = "call"
    /\ bFunction = "extract_class_body"
    /\ bStart' = IF ClassHeaderMatchEnd(bContent, sClassName) = -1 THEN -1
                 ELSE ClassHeaderMatchEnd(bContent, sClassName) - 1
    /\ bResult' = ExtractClassBody(bContent, sClassName)
    /\ bpc' = "returned"
    /\ UNCHANGED <<bFunction, bContent, notBalVars>>

\* a call _extract_balanced_parens(content, start_pos)
extract_balanced_parens ==
    /\ bpc = "call"
    /\ bFunction = "_extract_balanced_parens"
    /\ \E start_pos \in 0..Len(bContent) :
         /\ bStart' = start_pos
         /\ bResult' = ExtractBalancedParens(bContent, start_pos)
    /\ bpc' = "returned"
    /\ UNCHANGED <<bFunction, bContent, notBalVars>>

BalancedNext ==
    \/ extract_class_body
    \/ extract_balanced_parens

(***************************************************************************)
(* generate-backend.py: BackendGraphGenerator.                             *)
(***************************************************************************)
\* the characters of file and type names, in code point order
CodePointOrder ==
    << ".","0","1","2","3","4","5","6","7","8","9","A","B",
       "C","D","E","F","G","H","I","J","K","L","M","N","O",
       "P","Q","R","S","T","U","V","W","X","Y","Z","_","a",
       "b","c","d","e","f","g","h","i","j","k","l","m","n",
       "o","p","q","r","s","t","u","v","w","x","y","z" >>

CodePoint(c) ==
    CHOOSE i \in 1..Len(CodePointOrder) : CodePointOrder[i] = c

\* a < b on str
RECURSIVE StrLess(_, _)
StrLess(a, b) ==
    IF b = <<>> THEN FALSE
    ELSE IF a = <<>> THEN TRUE
    ELSE IF Head(a) = Head(b) THEN StrLess(Tail(a), Tail(b))
    ELSE CodePoint(Head(a)) < CodePoint(Head(b))

\* p < q on Path: the lists of path components are compared
RECURSIVE PathLess(_, _)
PathLess(p, q) ==
    IF q = <<>> THEN FALSE
    ELSE IF p = <<>> THEN TRUE
    ELSE IF Head(p) = Head(q) THEN PathLess(Tail(p), Tail(q))
    ELSE StrLess(Head(p), Head(q))

RECURSIVE InsertByPath(_, _)
InsertByPath(sorted, file) ==
    IF sorted = <<>> THEN <<file>>
    ELSE IF PathLess(file.path, Head(sorted).path) THEN <<file>> \o sorted
    ELSE <<Head(sorted)>> \o InsertByPath(Tail(sorted), file)

RECURSIVE SortInto(_, _)
SortInto(sorted, listing) ==
    IF listing = <<>> THEN sorted
    ELSE SortInto(InsertByPath(sorted, Head(listing)), Tail(listing))

\* sorted(directory.glob(...)): the files of a listing in path order
SortedFilesMutUnsorted(listing) ==
    listing

SortedFiles(listing) ==
    SortInto(<<>>, listing)

\* file_path.stem: the last component without its .cs suffix
Stem(path) ==
    LET file == path[Len(path)]
    IN IF EndsWith(file, <<".","c","s">>) /\ Len(file) > 3
       THEN SubSeq(file, 1, Len(file) - 3)
       ELSE file

\* re.sub('(.)([A-Z][a-z]+)', r'\1_\2', name)
RECURSIVE SnakeBeforeWords(_)
SnakeBeforeWords(s) ==
    IF s = <<>> THEN <<>>
    ELSE IF /\ Len(s) >= 3
            /\ s[2] \in UpperLetters
            /\ s[3] \in LowerLetters
    THEN LET ends == {j \in 3..Len(s) :
                        /\ \A i \in 3..j : s[i] \in LowerLetters
                        /\ (j = Len(s) \/ s[j + 1] \notin LowerLetters)}
             j == CHOOSE j \in ends : TRUE
         IN <<s[1], "_">> \o SubSeq(s, 2, j) \o SnakeBeforeWords(From(s, j))
    ELSE <<Head(s)>> \o SnakeBeforeWords(Tail(s))

\* re.sub('([a-z0-9])([A-Z])', r'\1_\2', s1)
RECURSIVE SnakeBeforeCapitals(_)
SnakeBeforeCapitals(s) ==
    IF s = <<>> THEN <<>>
    ELSE IF /\ Len(s) >= 2
            /\ s[1] \in LowerLetters \cup Digits
            /\ s[2] \in UpperLetters
    THEN <<s[1], "_", s[2]>> \o SnakeBeforeCapitals(From(s, 2))
    ELSE <<Head(s)>> \o SnakeBeforeCapitals(Tail(s))

\* CSharpParser.camel_to_snake
camel_to_snake(name) ==
    Lower(SnakeBeforeCapitals(SnakeBeforeWords(name)))

\* ---- Python dicts: lists of records with distinct names, in insertion
\* ---- order

\* dict[key] = value: an existing key keeps its position
DictSet(dict, value) ==
    IF value.name \in Keys(dict)
    THEN [i \in 1..Len(dict) |->
            IF dict[i].name = value.name THEN value ELSE dict[i]]
    ELSE Append(dict, value)

\* ---- _infer_entity_from_dto_name ----
sRequest == <<"R","e","q","u","e","s","t">>
sSystem == <<"S","y","s","t","e","m">>

manual_mappings ==
    (<<"M","y","P","r","o","f","i","l","e","D","t","o">>
       :> <<"P","e","r","s","o","n">>) @@
    (<<"U","p","d","a","t","e","M","y","P","r","o","f","i","l","e","R","e","q","u","e","s","t">>
       :> <<"P","e","r","s","o","n">>) @@
    (<<"D","u","p","l","i","c","a","t","e","M","a","t","c","h","D","t","o">>
       :> <<"P","e","r","s","o","n">>) @@
    (<<"F","i","r","s","t","T","i","m","e","V","i","s","i","t","o","r","D","t","o">>
       :> <<"P","e","r","s","o","n">>) @@
    (<<"U","p","d","a","t","e","F","o","l","l","o","w","U","p","S","t","a","t","u","s","R","e","q","u","e","s","t">>
       :> <<"P","e","r","s","o","n">>) @@
    (<<"A","s","s","i","g","n","F","o","l","l","o","w","U","p","R","e","q","u","e","s","t">>
       :> <<"P","e","r","s","o","n">>) @@
    (<<"C","r","e","a","t","e","P","h","o","n","e","N","u","m","b","e","r","R","e","q","u","e","s","t">>
       :> <<"P","e","r","s","o","n">>) @@
    (<<"U","p","d","a","t","e","P","h","o","n","e","N","u","m","b","e","r","R","e","q","u","e","s","t">>
       :> <<"P","e","r","s","o","n">>) @@
    (<<"L","o","g","i","n","R","e","q","u","e","s","t">>
       :> <<"U","s","e","r","S","e","s","s","i","o","n">>) @@
    (<<"T","o","k","e","n","R","e","s","p","o","n","s","e">>
       :> <<"U","s","e","r","S","e","s","s","i","o","n">>) @@
    (<<"C","h","a","n","g","e","P","a","s","s","w","o","r","d","R","e","q","u","e","s","t">>
       :> <<"P","e","r","s","o","n">>) @@
    (<<"T","w","o","F","a","c","t","o","r","V","e","r","i","f","y","R","e","q","u","e","s","t">>
       :> <<"T","w","o","F","a","c","t","o","r","C","o","n","f","i","g">>) @@
    (<<"T","w","o","F","a","c","t","o","r","S","e","t","u","p","D","t","o">>
       :> <<"T","w","o","F","a","c","t","o","r","C","o","n","f","i","g">>) @@
    (<<"T","w","o","F","a","c","t","o","r","S","t","a","t","u","s","D","t","o">>
       :> <<"T","w","o","F","a","c","t","o","r","C","o","n","f","i","g">>) @@
    (<<"G","l","o","b","a","l","S","e","a","r","c","h","R","e","s","u","l","t","D","t","o">>
       :> <<"S","y","s","t","e","m">>) @@
    (<<"G","l","o","b","a","l","S","e","a","r","c","h","R","e","s","p","o","n","s","e">>
       :> <<"S","y","s","t","e","m">>) @@
    (<<"C","s","v","P","r","e","v","i","e","w","D","t","o">>
       :> <<"I","m","p","o","r","t","J","o","b">>) @@
    (<<"I","m","p","o","r","t","J","o","b","D","t","o">>
       :> <<"I","m","p","o","r","t","J","o","b">>) @@
    (<<"I","m","p","o","r","t","T","e","m","p","l","a","t","e","D","t","o">>
       :> <<"I","m","p","o","r","t","T","e","m","p","l","a","t","e">>) @@
    (<<"C","r","e","a","t","e","I","m","p","o","r","t","T","e","m","p","l","a","t","e","R","e","q","u","e","s","t">>
       :> <<"I","m","p","o","r","t","T","e","m","p","l","a","t","e">>) @@
    (<<"S","t","a","r","t","I","m","p","o","r","t","R","e","q","u","e","s","t">>
       :> <<"I","m","p","o","r","t","J","o","b">>) @@
    (<<"V","a","l","i","d","a","t","e","I","m","p","o","r","t","R","e","q","u","e","s","t">>
       :> <<"I","m","p","o","r","t","J","o","b">>) @@
    (<<"E","x","p","o","r","t","F","i","e","l","d","D","t","o">>
       :> <<"E","x","p","o","r","t","J","o","b">>) @@
    (<<"S","t","a","r","t","E","x","p","o","r","t","R","e","q","u","e","s","t">>
       :> <<"E","x","p","o","r","t","J","o","b">>) @@
    (<<"A","u","d","i","t","L","o","g","E","x","p","o","r","t","R","e","q","u","e","s","t">>
       :> <<"A","u","d","i","t","L","o","g">>) @@
    (<<"L","a","b","e","l","S","e","t","D","t","o">>
       :> <<"L","a","b","e","l","T","e","m","p","l","a","t","e">>) @@
    (<<"L","a","b","e","l","D","t","o">>
       :> <<"L","a","b","e","l","T","e","m","p","l","a","t","e">>) @@
    (<<"L","a","b","e","l","R","e","q","u","e","s","t","D","t","o">>
       :> <<"L","a","b","e","l","T","e","m","p","l","a","t","e">>) @@
    (<<"B","a","t","c","h","L","a","b","e","l","R","e","q","u","e","s","t","D","t","o">>
       :> <<"L","a","b","e","l","T","e","m","p","l","a","t","e">>) @@
    (<<"L","a","b","e","l","P","r","e","v","i","e","w","R","e","q","u","e","s","t","D","t","o">>
       :> <<"L","a","b","e","l","T","e","m","p","l","a","t","e">>) @@
    (<<"L","a","b","e","l","P","r","e","v","i","e","w","D","t","o">>
       :> <<"L","a","b","e","l","T","e","m","p","l","a","t","e">>) @@
    (<<"M","e","r","g","e","F","i","e","l","d","D","t","o">>
       :> <<"L","a","b","e","l","T","e","m","p","l","a","t","e">>) @@
    (<<"D","a","s","h","b","o","a","r","d","S","t","a","t","s","D","t","o">>
       :> <<"S","y","s","t","e","m">>) @@
    (<<"D","a","s","h","b","o","a","r","d","B","a","t","c","h","D","t","o">>
       :> <<"C","o","n","t","r","i","b","u","t","i","o","n","B","a","t","c","h">>) @@
    (<<"U","p","c","o","m","i","n","g","S","c","h","e","d","u","l","e","D","t","o">>
       :> <<"S","c","h","e","d","u","l","e">>) @@
    (<<"F","i","l","e","M","e","t","a","d","a","t","a","D","t","o">>
       :> <<"B","i","n","a","r","y","F","i","l","e">>) @@
    (<<"U","p","l","o","a","d","F","i","l","e","R","e","q","u","e","s","t">>
       :> <<"B","i","n","a","r","y","F","i","l","e">>) @@
    (<<"P","i","c","k","u","p","V","e","r","i","f","i","c","a","t","i","o","n","R","e","s","u","l","t","D","t","o">>
       :> <<"P","i","c","k","u","p","L","o","g">>) @@
    (<<"V","e","r","i","f","y","P","i","c","k","u","p","R","e","q","u","e","s","t">>
       :> <<"P","i","c","k","u","p","L","o","g">>) @@
    (<<"R","e","c","o","r","d","P","i","c","k","u","p","R","e","q","u","e","s","t">>
       :> <<"P","i","c","k","u","p","L","o","g">>)

RequestPrefixes ==
    << <<"C","r","e","a","t","e">>,
       <<"U","p","d","a","t","e">>,
       <<"A","d","d">>,
       <<"R","e","m","o","v","e">>,
       <<"D","e","l","e","t","e">>,
       <<"U","p","l","o","a","d">>,
       <<"I","m","p","o","r","t">>,
       <<"E","x","p","o","r","t">>,
       <<"V","a","l","i","d","a","t","e">> >>

\* the loop over the prefixes Create, Update, ...: the entity found, None
\* when the loop ends without a return
RECURSIVE RequestPatternEntity(_, _, _)
RequestPatternEntity(entityNames, base_name, prefixes) ==
    IF prefixes = <<>> THEN None
    ELSE LET prefix == Head(prefixes)
             entity_candidate == From(base_name, Len(prefix))
             found == FirstName(entityNames,
                        LAMBDA entity_name :
                          StartsWith(entity_candidate, entity_name))
         IN IF ~StartsWith(base_name, prefix)
            THEN RequestPatternEntity(entityNames, base_name, Tail(prefixes))
            ELSE IF entity_candidate \in Range(entityNames)
            THEN entity_candidate
            ELSE IF found # None THEN found
            ELSE RequestPatternEntity(entityNames, base_name, Tail(prefixes))

\* the Dto suffix rule with the longest entity name that is a prefix
DtoSuffixEntityMutLongest(entityNames, base_name) ==
    LET prefixes == {e \in Range(entityNames) :
                       StartsWith(base_name, e) /\ e # base_name}
    IN IF base_name \in Range(entityNames) THEN base_name
       ELSE IF prefixes = {} THEN None
       ELSE CHOOSE e \in prefixes : \A f \in prefixes : Len(f) <= Len(e)

\* the Dto suffix rule: the entity named like the DTO without Dto, else
\* the first entity whose name is a proper prefix of that base name
DtoSuffixEntity(entityNames, base_name) ==
    IF base_name \in Range(entityNames) THEN base_name
    ELSE FirstName(entityNames,
           LAMBDA entity_name :
             StartsWith(base_name, entity_name) /\ entity_name # base_name)

\* the manual table read without the test of the target
InferEntityFromDtoNameMutManualUnchecked(entityNames, dto_name) ==
    IF dto_name \in DOMAIN manual_mappings THEN manual_mappings[dto_name]
    ELSE IF EndsWith(dto_name, sRequest)
         /\ RequestPatternEntity(entityNames,
              SubSeq(dto_name, 1, Len(dto_name) - 7), RequestPrefixes) # None
    THEN RequestPatternEntity(entityNames,
           SubSeq(dto_name, 1, Len(dto_name) - 7), RequestPrefixes)
    ELSE IF EndsWith(dto_name, sDto)
    THEN DtoSuffixEntity(entityNames, SubSeq(dto_name, 1, Len(dto_name) - 3))
    ELSE None

\* BackendGraphGenerator._infer_entity_from_dto_name, entityNames being the
\* keys of self.entities in insertion order
InferEntityFromDtoName(entityNames, dto_name) ==
    LET manual ==
          IF dto_name \in DOMAIN manual_mappings
          THEN LET entity == manual_mappings[dto_name]
               IN IF entity = sSystem \/ entity \in Range(entityNames)
                  THEN entity ELSE None
          ELSE None
        request ==
          IF EndsWith(dto_name, sRequest)
          THEN RequestPatternEntity(entityNames,
                 SubSeq(dto_name, 1, Len(dto_name) - 7), RequestPrefixes)
          ELSE None
        dto ==
          IF EndsWith(dto_name, sDto)
          THEN DtoSuffixEntity(entityNames,
                 SubSeq(dto_name, 1, Len(dto_name) - 3))
          ELSE None
    IN IF manual # None THEN manual
       ELSE IF request # None THEN request
       ELSE dto

\* ---- source files: a path below the directory that is listed, and the
\* ---- content, represented by what CSharpParser extracts from the text

\* read_file returned "" (an empty or unreadable file)
NoContent == [empty |-> TRUE]

\* extract_namespace(content)
ExtractNamespaceMutDefault(content) ==
    IF content.namespace = None THEN <<"G","l","o","b","a","l">>
    ELSE content.namespace

ExtractNamespace(content) ==
    content.namespace

\* extract_table_name(class_name, content)
ExtractTableName(class_name, content) ==
    IF content.table # None THEN content.table
    ELSE camel_to_snake(class_name)

\* I followed by an uppercase letter: IEntity, IAuditable
IsInterfaceName(class_name) ==
    /\ StartsWith(class_name, <<"I">>)
    /\ Len(class_name) > 1
    /\ IsUpperChar(class_name[2])

\* process_entities: the loop over the sorted files
RECURSIVE EntitiesFrom(_, _)
EntitiesFrom(registry, files) ==
    IF files = <<>> THEN registry
    ELSE LET file_path == Head(files).path
             content == Head(files).content
             class_name == Stem(file_path)
             skipped == \/ IsInterfaceName(class_name)
                        \/ content = NoContent
                        \/ ExtractNamespace(content) = None
             entity == [name |-> class_name,
                        namespace |-> ExtractNamespace(content),
                        table |-> ExtractTableName(class_name, content),
                        properties |-> content.properties,
                        navigations |-> content.navigations]
         IN EntitiesFrom(IF skipped THEN registry
                         ELSE DictSet(registry, entity),
                         Tail(files))

\* the edges process_dtos appends for one declaration
MapsToEdgesMutReversed(dto_name, linked_entity) ==
    IF linked_entity = None THEN <<>>
    ELSE << [source |-> linked_entity, target |-> dto_name,
             relationship |-> "maps_to"] >>

MapsToEdges(dto_name, linked_entity) ==
    IF linked_entity = None THEN <<>>
    ELSE << [source |-> dto_name, target |-> linked_entity,
             relationship |-> "maps_to"] >>

\* extract_record_properties(content, class_name): a function of the text
\* and the name, the same for every declaration of that name in the file
ExtractRecordProperties(content, class_name) ==
    Lookup(content.record_properties, class_name).properties

\* the loop over the declarations with an entity registry that is still
\* empty
RECURSIVE DeclarationsIntoMutNoEntities(_, _, _, _)
DeclarationsIntoMutNoEntities(state, entityNames, content, declarations) ==
    IF declarations = <<>> THEN state
    ELSE LET dto_name == Head(declarations)
             linked_entity == InferEntityFromDtoName(<<>>, dto_name)
             dto == [name |-> dto_name,
                     namespace |-> ExtractNamespace(content),
                     properties |-> ExtractRecordProperties(content, dto_name),
                     linked_entity |-> linked_entity]
         IN DeclarationsIntoMutNoEntities(
              [dtos |-> DictSet(state.dtos, dto),
               edges |-> state.edges
                           \o MapsToEdges(dto_name, linked_entity)],
              entityNames, content, Tail(declarations))

\* process_dtos: the loop over the declarations matched in one file;
\* linked_entity = None stands for a record without that key
RECURSIVE DeclarationsInto(_, _, _, _)
DeclarationsInto(state, entityNames, content, declarations) ==
    IF declarations = <<>> THEN state
    ELSE LET dto_name == Head(declarations)
             linked_entity == InferEntityFromDtoName(entityNames, dto_name)
             dto == [name |-> dto_name,
                     namespace |-> ExtractNamespace(content),
                     properties |-> ExtractRecordProperties(content, dto_name),
                     linked_entity |-> linked_entity]
         IN DeclarationsInto(
              [dtos |-> DictSet(state.dtos, dto),
               edges |-> state.edges
                           \o MapsToEdges(dto_name, linked_entity)],
              entityNames, content, Tail(declarations))

\* process_dtos: the loop over the sorted files
RECURSIVE DtosFrom(_, _, _)
DtosFrom(state, entityNames, files) ==
    IF files = <<>> THEN state
    ELSE LET content == Head(files).content
             skipped == \/ content = NoContent
                        \/ ExtractNamespace(content) = None
         IN DtosFrom(IF skipped THEN state
                     ELSE DeclarationsInto(state, entityNames, content,
                            content.declarations),
                     entityNames, Tail(files))

sService == <<"S","e","r","v","i","c","e">>
sController == <<"C","o","n","t","r","o","l","l","e","r">>
sApiV1 == <<"a","p","i","/","v","1","/">>

\* process_services: the loop over the sorted files of one directory
RECURSIVE ServicesFrom(_, _)
ServicesFrom(registry, files) ==
    IF files = <<>> THEN registry
    ELSE LET content == Head(files).content
             class_name == Stem(Head(files).path)
             skipped == \/ content = NoContent
                        \/ ExtractNamespace(content) = None
                        \/ ~EndsWith(class_name, sService)
             service == [name |-> class_name,
                         namespace |-> ExtractNamespace(content),
                         methods |-> content.methods,
                         dependencies |-> content.dependencies]
         IN ServicesFrom(IF skipped THEN registry
                         ELSE DictSet(registry, service),
                         Tail(files))

\* process_controllers: the loop over the sorted files
RECURSIVE ControllersFrom(_, _)
ControllersFrom(registry, files) ==
    IF files = <<>> THEN registry
    ELSE LET content == Head(files).content
             class_name == Stem(Head(files).path)
             skipped == \/ content = NoContent
                        \/ ExtractNamespace(content) = None
                        \/ ~EndsWith(class_name, sController)
             controller_base == SubSeq(class_name, 1, Len(class_name) - 10)
             route == IF content.route # None THEN content.route
                      ELSE sApiV1 \o camel_to_snake(controller_base)
             controller == [name |-> class_name,
                            namespace |-> ExtractNamespace(content),
                            route |-> route,
                            endpoints |-> content.endpoints,
                            patterns |-> content.patterns,
                            dependencies |-> content.dependencies]
         IN ControllersFrom(IF skipped THEN registry
                            ELSE DictSet(registry, controller),
                            Tail(files))

\* str.lstrip('I')
RECURSIVE LStripI(_)
LStripI(s) ==
    IF s # <<>> /\ Head(s) = "I" THEN LStripI(Tail(s)) ELSE s

\* build_edges: the service a controller dependency points at, None when
\* there is none
DependsOnTarget(serviceNames, dep) ==
    IF dep \in Range(serviceNames) THEN dep
    ELSE FirstName(serviceNames,
           LAMBDA service_name :
             \/ LStripI(dep) = service_name
             \/ <<"I">> \o service_name = dep)

\* one edge for every item that has a target, in the order of the items
RECURSIVE EdgesTo(_, _, _, _)
EdgesTo(source, items, Target(_), relationship) ==
    IF items = <<>> THEN <<>>
    ELSE (IF Target(Head(items)) = None THEN <<>>
          ELSE << [source |-> source, target |-> Target(Head(items)),
                   relationship |-> relationship] >>)
           \o EdgesTo(source, Tail(items), Target, relationship)

\* build_edges: controller -> service
RECURSIVE DependsOnEdges(_, _)
DependsOnEdges(controllers, serviceNames) ==
    IF controllers = <<>> THEN <<>>
    ELSE EdgesTo(Head(controllers).name, Head(controllers).dependencies,
                 LAMBDA dep : DependsOnTarget(serviceNames, dep),
                 "depends_on")
           \o DependsOnEdges(Tail(controllers), serviceNames)

\* build_edges: service -> DTO named in a return type
RECURSIVE ReturnsEdgesMutEveryMatch(_, _)
ReturnsEdgesMutEveryMatch(services, dtoNames) ==
    IF services = <<>> THEN <<>>
    ELSE LET service == Head(services)
             matching(method) ==
               SelectSeq(dtoNames,
                 LAMBDA dto_name : Contains(method.return_type, dto_name))
             EdgesOf[i \in 0..Len(service.methods)] ==
               IF i = 0 THEN <<>>
               ELSE EdgesOf[i - 1]
                      \o [j \in 1..Len(matching(service.methods[i])) |->
                            [source |-> service.name,
                             target |-> matching(service.methods[i])[j],
                             relationship |-> "returns"]]
         IN EdgesOf[Len(service.methods)]
              \o ReturnsEdgesMutEveryMatch(Tail(services), dtoNames)

RECURSIVE ReturnsEdges(_, _)
ReturnsEdges(services, dtoNames) ==
    IF services = <<>> THEN <<>>
    ELSE EdgesTo(Head(services).name, Head(services).methods,
                 LAMBDA method :
                   FirstName(dtoNames,
                     LAMBDA dto_name : Contains(method.return_type, dto_name)),
                 "returns")
           \o ReturnsEdges(Tail(services), dtoNames)

\* build_edges: service -> entity named in a dependency
RECURSIVE UsesEdges(_, _)
UsesEdges(services, entityNames) ==
    IF services = <<>> THEN <<>>
    ELSE EdgesTo(Head(services).name, Head(services).dependencies,
                 LAMBDA dep :
                   FirstName(entityNames,
                     LAMBDA entity_name : Contains(dep, entity_name)),
                 "uses")
           \o UsesEdges(Tail(services), entityNames)

\* the dict generate() returns
GeneratedGraph(entities, dtos, services, controllers, edges, now) ==
    [version |-> "1.0",
     generated_at |-> now,
     entities |-> entities,
     dtos |-> dtos,
     services |-> services,
     controllers |-> controllers,
     edges |-> edges,
     summary |-> [total_entities |-> Len(entities),
                  total_dtos |-> Len(dtos),
                  total_services |-> Len(services),
                  total_controllers |-> Len(controllers),
                  total_relationships |-> Len(edges)]]

\* ---- a run of the generator: BackendGraphGenerator(project_root) and
\* ---- generate(), then a second run on the same tree

NotGenerated == [version |-> "<none>"]

\* the files a glob can list: every order of the directory's files
Listings(files) ==
    Orders(files)

process_entities ==
    /\ gpc = "entities"
    /\ \E listing \in Listings(gTree.entities) :
         gEntities' = EntitiesFrom(gEntities, SortedFiles(listing))
    /\ gStages' = Append(gStages, "entities")
    /\ gpc' = "dtos"
    /\ UNCHANGED <<gTree, gDtos, gServices, gControllers, gEdges, gGraph,
                   gRun, gFirst, notGenVars>>

process_dtos ==
    /\ gpc = "dtos"
    /\ \E listing \in Listings(gTree.dtos) :
         LET after == DtosFrom([dtos |-> gDtos, edges |-> gEdges],
                               KeySeq(gEntities), SortedFiles(listing))
         IN /\ gDtos' = after.dtos
            /\ gEdges' = after.edges
    /\ gStages' = Append(gStages, "dtos")
    /\ gpc' = "services"
    /\ UNCHANGED <<gTree, gEntities, gServices, gControllers, gGraph,
                   gRun, gFirst, notGenVars>>

process_services ==
    /\ gpc = "services"
    /\ \E services \in Listings(gTree.services) :
         \E interfaces \in Listings(gTree.interfaces) :
           gServices' = ServicesFrom(
                          ServicesFrom(gServices, SortedFiles(services)),
                          SortedFiles(interfaces))
    /\ gStages' = Append(gStages, "services")
    /\ gpc' = "controllers"
    /\ UNCHANGED <<gTree, gEntities, gDtos, gControllers, gEdges, gGraph,
                   gRun, gFirst, notGenVars>>

process_controllers ==
    /\ gpc = "controllers"
    /\ \E listing \in Listings(gTree.controllers) :
         gControllers' = ControllersFrom(gControllers, SortedFiles(listing))
    /\ gStages' = Append(gStages, "controllers")
    /\ gpc' = "build_edges"
    /\ UNCHANGED <<gTree, gEntities, gDtos, gServices, gEdges, gGraph,
                   gRun, gFirst, notGenVars>>

build_edges ==
    /\ gpc = "build_edges"
    /\ gEdges' = gEdges
                   \o DependsOnEdges(gControllers, KeySeq(gServices))
                   \o ReturnsEdges(gServices, KeySeq(gDtos))
                   \o UsesEdges(gServices, KeySeq(gEntities))
    /\ gStages' = Append(gStages, "build_edges")
    /\ gpc' = "return"
    /\ UNCHANGED <<gTree, gEntities, gDtos, gServices, gControllers, gGraph,
                   gRun, gFirst, notGenVars>>

\* the return statement of generate(), with the time of the clock
generate_return ==
    /\ gpc = "return"
    /\ \E now \in Times :
         gGraph' = GeneratedGraph(gEntities, gDtos, gServices, gControllers,
                                  gEdges, now)
    /\ gpc' = "done"
    /\ UNCHANGED <<gTree, gEntities, gDtos, gServices, gControllers, gEdges,
                   gStages, gRun, gFirst, notGenVars>>

\* main() once more on the unchanged tree: a new BackendGraphGenerator
run_again ==
    /\ gpc = "done"
    /\ gRun = 1
    /\ gFirst' = gGraph
    /\ gRun' = 2
    /\ gEntities' = <<>>
    /\ gDtos' = <<>>
    /\ gServices' = <<>>
    /\ gControllers' = <<>>
    /\ gEdges' = <<>>
    /\ gStages' = <<>>
    /\ gGraph' = NotGenerated
    /\ gpc' = "entities"
    /\ UNCHANGED <<gTree, notGenVars>>

GeneratorNext ==
    \/ process_entities
    \/ process_dtos
    \/ process_services
    \/ process_controllers
    \/ build_edges
    \/ generate_return
    \/ run_again

\* ---- inputs: source trees; the content of a file is what the parser
\* ---- extracts from a C# text of that shape (a class with a primary
\* ---- constructor is also matched by the method pattern)
\* the most files of the entity directory and of the DTO directory
MaxEntityFiles == 2
MaxDtoFiles == 2

SourceFile(path, content) ==
    [path |-> path, content |-> content]

nsEntities == <<"K","o","i","n","o","n",".","D","o","m","a","i","n",".","E","n","t","i","t","i","e","s">>
nsDtos == <<"K","o","i","n","o","n",".","A","p","p","l","i","c","a","t","i","o","n",".","D","T","O","s">>
nsPeople == <<"K","o","i","n","o","n",".","A","p","p","l","i","c","a","t","i","o","n",".","D","T","O","s",".","P","e","o","p","l","e">>
nsServices == <<"K","o","i","n","o","n",".","A","p","p","l","i","c","a","t","i","o","n",".","S","e","r","v","i","c","e","s">>
nsControllers == <<"K","o","i","n","o","n",".","A","p","i",".","C","o","n","t","r","o","l","l","e","r","s">>

EntityContent(namespace, table) ==
    [namespace |-> namespace, table |-> table,
     properties |-> <<"Id">>, navigations |-> <<>>]

EntityFilePool ==
    { SourceFile(<< <<"P","e","r","s","o","n",".","c","s">> >>, EntityContent(nsEntities, None)),
      SourceFile(<< <<"G","r","o","u","p",".","c","s">> >>, EntityContent(nsEntities, None)),
      SourceFile(<< <<"G","r","o","u","p","M","e","m","b","e","r",".","c","s">> >>, EntityContent(nsEntities, <<"g","r","o","u","p","_","m","e","m","b","e","r">>)),
      SourceFile(<< <<"P","e","r","s","o","n","S","u","m","m","a","r","y",".","c","s">> >>, EntityContent(nsEntities, None)),
      SourceFile(<< <<"I","E","n","t","i","t","y",".","c","s">> >>, EntityContent(nsEntities, None)),
      SourceFile(<< <<"O","r","p","h","a","n",".","c","s">> >>, EntityContent(None, None)) }

\* the properties the text gives the record of that name
DtoDeclaration(name, properties) ==
    [name |-> name, properties |-> properties]

\* the names the declaration pattern matches, in the order of the text,
\* and the properties of each name
DtoContent(namespace, declarations, record_properties) ==
    [namespace |-> namespace, declarations |-> declarations,
     record_properties |-> record_properties]

nPersonDto == <<"P","e","r","s","o","n","D","t","o">>
nPersonSummaryDto == <<"P","e","r","s","o","n","S","u","m","m","a","r","y","D","t","o">>
nGroupMemberSummaryDto == <<"G","r","o","u","p","M","e","m","b","e","r","S","u","m","m","a","r","y","D","t","o">>
nCreateGroupRequest == <<"C","r","e","a","t","e","G","r","o","u","p","R","e","q","u","e","s","t">>
nGlobalSearchResultDto == <<"G","l","o","b","a","l","S","e","a","r","c","h","R","e","s","u","l","t","D","t","o">>
nLoginRequest == <<"L","o","g","i","n","R","e","q","u","e","s","t">>
nPerson == <<"P","e","r","s","o","n">>
nGroup == <<"G","r","o","u","p">>
nGroupMember == <<"G","r","o","u","p","M","e","m","b","e","r">>
nPersonSummary == <<"P","e","r","s","o","n","S","u","m","m","a","r","y">>

DtoFilePool ==
    { SourceFile(<< <<"P","e","r","s","o","n","D","t","o",".","c","s">> >>,
        DtoContent(nsDtos,
          << nPersonDto, nPersonSummaryDto >>,
          << DtoDeclaration(nPersonDto, <<"IdKey">>),
             DtoDeclaration(nPersonSummaryDto, <<"IdKey">>) >>)),
      SourceFile(<< <<"P","e","o","p","l","e">>, <<"P","e","r","s","o","n","D","t","o",".","c","s">> >>,
        DtoContent(nsPeople,
          << nPersonDto >>,
          << DtoDeclaration(nPersonDto, <<"IdKey", "FirstName">>) >>)),
      SourceFile(<< <<"G","r","o","u","p","D","t","o","s",".","c","s">> >>,
        DtoContent(nsDtos,
          << nGroupMemberSummaryDto, nCreateGroupRequest,
             nGlobalSearchResultDto >>,
          << DtoDeclaration(nGroupMemberSummaryDto, <<>>),
             DtoDeclaration(nCreateGroupRequest, <<"Name">>),
             DtoDeclaration(nGlobalSearchResultDto, <<>>) >>)),
      SourceFile(<< <<"A","u","t","h",".","c","s">> >>,
        DtoContent(nsDtos,
          << nLoginRequest, nPersonSummaryDto, nPersonSummaryDto >>,
          << DtoDeclaration(nLoginRequest, <<>>),
             DtoDeclaration(nPersonSummaryDto, <<"FullName">>) >>)),
      SourceFile(<< <<"B","r","o","k","e","n",".","c","s">> >>,
        DtoContent(None,
          << nPersonDto >>,
          << DtoDeclaration(nPersonDto, <<>>) >>)),
      SourceFile(<< <<"E","m","p","t","y",".","c","s">> >>, NoContent) }

ServiceContent(namespace, methods, deps) ==
    [namespace |-> namespace, methods |-> methods,
     dependencies |-> deps]

ControllerContent(namespace, route, deps) ==
    [namespace |-> namespace, route |-> route,
     endpoints |-> << [name |-> "GetByIdKey", method |-> "GET",
                       route |-> "{idKey}"] >>,
     patterns |-> [response_envelope |-> TRUE, idkey_routes |-> TRUE,
                   problem_details |-> FALSE, result_pattern |-> FALSE],
     dependencies |-> deps]

PersonServiceFile ==
    SourceFile(<< <<"P","e","r","s","o","n","S","e","r","v","i","c","e",".","c","s">> >>,
      ServiceContent(nsServices,
        << [name |-> "PersonService", return_type |-> <<"c","l","a","s","s">>,
            is_async |-> FALSE],
           [name |-> "GetAsync", return_type |-> <<"T","a","s","k","<","P","e","r","s","o","n","D","t","o",">">>,
            is_async |-> FALSE] >>,
        << <<"I","R","e","p","o","s","i","t","o","r","y","<","P","e","r","s","o","n",">">> >>))

IPersonServiceFile ==
    SourceFile(<< <<"I","P","e","r","s","o","n","S","e","r","v","i","c","e",".","c","s">> >>,
      ServiceContent(nsServices,
        << [name |-> "GetAsync", return_type |-> <<"T","a","s","k","<","P","e","r","s","o","n","D","t","o",">">>,
            is_async |-> FALSE] >>,
        <<>>))

PeopleControllerFile ==
    SourceFile(<< <<"P","e","o","p","l","e","C","o","n","t","r","o","l","l","e","r",".","c","s">> >>,
      ControllerContent(nsControllers, None, << <<"I","P","e","r","s","o","n","S","e","r","v","i","c","e">> >>))

GroupMembersControllerFile ==
    SourceFile(<< <<"G","r","o","u","p","M","e","m","b","e","r","s","C","o","n","t","r","o","l","l","e","r",".","c","s">> >>,
      ControllerContent(nsControllers, <<"a","p","i","/","v","1","/","g","r","o","u","p","s">>, << <<"P","e","r","s","o","n","S","e","r","v","i","c","e">> >>))

HelperFile ==
    SourceFile(<< <<"H","e","l","p","e","r",".","c","s">> >>,
      ControllerContent(nsControllers, None, <<>>))

\* a service file and a controller file without a namespace declaration
OrphanServiceFile ==
    SourceFile(<< <<"O","r","p","h","a","n","S","e","r","v","i","c","e",".","c","s">> >>,
      ServiceContent(None,
        << [name |-> "GetAsync", return_type |-> <<"T","a","s","k","<","P","e","r","s","o","n","D","t","o",">">>,
            is_async |-> FALSE] >>,
        << <<"I","R","e","p","o","s","i","t","o","r","y","<","P","e","r","s","o","n",">">> >>))

OrphanControllerFile ==
    SourceFile(<< <<"O","r","p","h","a","n","C","o","n","t","r","o","l","l","e","r",".","c","s">> >>,
      ControllerContent(None, None, << <<"P","e","r","s","o","n","S","e","r","v","i","c","e">> >>))

\* the directories Services, Interfaces and Controllers of a tree
ApplicationTrees ==
    { [services |-> {}, interfaces |-> {}, controllers |-> {}],
      [services |-> {PersonServiceFile, OrphanServiceFile},
       interfaces |-> {},
       controllers |-> {OrphanControllerFile, PeopleControllerFile}],
      [services |-> {PersonServiceFile}, interfaces |-> {},
       controllers |-> {PeopleControllerFile, HelperFile}],
      [services |-> {PersonServiceFile}, interfaces |-> {IPersonServiceFile},
       controllers |-> {PeopleControllerFile, GroupMembersControllerFile}],
      [services |-> {}, interfaces |-> {IPersonServiceFile},
       controllers |-> {GroupMembersControllerFile}] }

SubsetsUpTo(S, n) ==
    {files \in SUBSET S : Cardinality(files) <= n}

SourceTrees ==
    { [entities |-> e, dtos |-> d, services |-> a.services,
       interfaces |-> a.interfaces, controllers |-> a.controllers] :
        e \in SubsetsUpTo(EntityFilePool, MaxEntityFiles),
        d \in SubsetsUpTo(DtoFilePool, MaxDtoFiles),
        a \in ApplicationTrees }

GeneratorInit ==
    /\ gpc = "entities"
    /\ gTree \in SourceTrees
    /\ gEntities = <<>>
    /\ gDtos = <<>>
    /\ gServices = <<>>
    /\ gControllers = <<>>
    /\ gEdges = <<>>
    /\ gStages = <<>>
    /\ gGraph = NotGenerated
    /\ gRun = 1
    /\ gFirst = NotGenerated

\* ---- inputs of build_edges: trees whose registries hold several names
\* ---- that match one return type or one dependency

nPersonAlias == <<"P","e","r","s","o","n","A","l","i","a","s">>
nGroupDto == <<"G","r","o","u","p","D","t","o">>
tPairOfDtos == <<"P","a","i","r","<","G","r","o","u","p","D","t","o",",","P","e","r","s","o","n","D","t","o",">">>
tTaskOfPersonDto == <<"T","a","s","k","<","P","e","r","s","o","n","D","t","o",">">>
tVoid == <<"v","o","i","d">>
dAliasRepository == <<"I","R","e","p","o","s","i","t","o","r","y","<","P","e","r","s","o","n","A","l","i","a","s",">">>
dLogger == <<"I","L","o","g","g","e","r">>
dIIService == <<"I","I","S","e","r","v","i","c","e">>
dIService == <<"I","S","e","r","v","i","c","e">>
dIPairService == <<"I","P","a","i","r","S","e","r","v","i","c","e">>
dPairService == <<"P","a","i","r","S","e","r","v","i","c","e">>

PersonEntityFile ==
    SourceFile(<< <<"P","e","r","s","o","n",".","c","s">> >>, EntityContent(nsEntities, None))

PersonAliasEntityFile ==
    SourceFile(<< <<"P","e","r","s","o","n","A","l","i","a","s",".","c","s">> >>, EntityContent(nsEntities, None))

GroupEntityFile ==
    SourceFile(<< <<"G","r","o","u","p",".","c","s">> >>, EntityContent(nsEntities, None))

EdgeEntityDirs ==
    { {}, {PersonEntityFile}, {PersonEntityFile, PersonAliasEntityFile},
      {PersonAliasEntityFile, GroupEntityFile} }

GroupDtoFile ==
    SourceFile(<< <<"G","r","o","u","p","D","t","o",".","c","s">> >>,
      DtoContent(nsDtos, << nGroupDto >>, << DtoDeclaration(nGroupDto, <<"IdKey">>) >>))

PersonDtoFile ==
    SourceFile(<< <<"P","e","r","s","o","n","D","t","o",".","c","s">> >>,
      DtoContent(nsDtos, << nPersonDto >>, << DtoDeclaration(nPersonDto, <<"IdKey">>) >>))

DtosFile ==
    SourceFile(<< <<"D","t","o","s",".","c","s">> >>,
      DtoContent(nsDtos, << nPersonDto, nGroupDto >>,
        << DtoDeclaration(nPersonDto, <<"IdKey">>),
           DtoDeclaration(nGroupDto, <<"IdKey">>) >>))

EdgeDtoDirs ==
    { {}, {PersonDtoFile}, {GroupDtoFile, PersonDtoFile}, {DtosFile} }

Method(name, return_type) ==
    [name |-> name, return_type |-> return_type, is_async |-> FALSE]

PairServiceFile ==
    SourceFile(<< <<"P","a","i","r","S","e","r","v","i","c","e",".","c","s">> >>,
      ServiceContent(nsServices,
        << Method("GetPair", tPairOfDtos), Method("GetAsync", tTaskOfPersonDto),
           Method("Clear", tVoid), Method("GetBoth", tPairOfDtos) >>,
        << dAliasRepository, dLogger, dAliasRepository >>))

ServiceFile ==
    SourceFile(<< <<"S","e","r","v","i","c","e",".","c","s">> >>,
      ServiceContent(nsServices, << Method("Run", tVoid) >>, <<>>))

IServiceFile ==
    SourceFile(<< <<"I","S","e","r","v","i","c","e",".","c","s">> >>,
      ServiceContent(nsServices, << Method("Run", tVoid) >>, <<>>))

PairControllerFile ==
    SourceFile(<< <<"P","a","i","r","C","o","n","t","r","o","l","l","e","r",".","c","s">> >>,
      ControllerContent(nsControllers, None,
        << dIPairService, dPairService, dLogger, dIPairService >>))

NestedControllerFile ==
    SourceFile(<< <<"N","e","s","t","e","d","C","o","n","t","r","o","l","l","e","r",".","c","s">> >>,
      ControllerContent(nsControllers, None,
        << dIIService, dIService, dIPairService >>))

EdgeApplicationDirs ==
    { [services |-> {PairServiceFile}, interfaces |-> {},
       controllers |-> {PairControllerFile}],
      [services |-> {PairServiceFile, ServiceFile},
       interfaces |-> {IServiceFile},
       controllers |-> {NestedControllerFile, PairControllerFile}],
      [services |-> {ServiceFile}, interfaces |-> {IServiceFile},
       controllers |-> {NestedControllerFile}] }

EdgeTrees ==
    { [entities |-> e, dtos |-> d, services |-> a.services,
       interfaces |-> a.interfaces, controllers |-> a.controllers] :
        e \in EdgeEntityDirs, d \in EdgeDtoDirs, a \in EdgeApplicationDirs }

EdgesInit ==
    /\ gpc = "entities"
    /\ gTree \in EdgeTrees
    /\ gEntities = <<>>
    /\ gDtos = <<>>
    /\ gServices = <<>>
    /\ gControllers = <<>>
    /\ gEdges = <<>>
    /\ gStages = <<>>
    /\ gGraph = NotGenerated
    /\ gRun = 1
    /\ gFirst = NotGenerated

\* ---- the four process_* methods of one generator called in any order,
\* ---- any of them more than once, on a tree that holds a file without a
\* ---- namespace in every directory kind
\* the most calls made on one generator
MaxStageCalls == 3

\* a file was read and no namespace can be extracted from it
LacksNamespace(file) ==
    file.content # NoContent /\ file.content.namespace = None

StageTrees ==
    {t \in SourceTrees :
        /\ \E f \in t.entities : LacksNamespace(f)
        /\ \E f \in t.dtos : LacksNamespace(f)
        /\ \E f \in t.services : LacksNamespace(f)
        /\ \E f \in t.controllers : LacksNamespace(f)}

StagesInit ==
    /\ gpc = "stages"
    /\ gTree \in StageTrees
    /\ gEntities = <<>>
    /\ gDtos = <<>>
    /\ gServices = <<>>
    /\ gControllers = <<>>
    /\ gEdges = <<>>
    /\ gStages = <<>>
    /\ gGraph = NotGenerated
    /\ gRun = 1
    /\ gFirst = NotGenerated

call_process_entities ==
    /\ gpc = "stages"
    /\ Len(gStages) < MaxStageCalls
    /\ \E listing \in Listings(gTree.entities) :
         gEntities' = EntitiesFrom(gEntities, SortedFiles(listing))
    /\ gStages' = Append(gStages, "entities")
    /\ UNCHANGED <<gpc, gTree, gDtos, gServices, gControllers, gEdges, gGraph,
                   gRun, gFirst, notGenVars>>

call_process_dtos ==
    /\ gpc = "stages"
    /\ Len(gStages) < MaxStageCalls
    /\ \E listing \in Listings(gTree.dtos) :
         LET after == DtosFrom([dtos |-> gDtos, edges |-> gEdges],
                               KeySeq(gEntities), SortedFiles(listing))
         IN /\ gDtos' = after.dtos
            /\ gEdges' = after.edges
    /\ gStages' = Append(gStages, "dtos")
    /\ UNCHANGED <<gpc, gTree, gEntities, gServices, gControllers, gGraph,
                   gRun, gFirst, notGenVars>>

call_process_services ==
    /\ gpc = "stages"
    /\ Len(gStages) < MaxStageCalls
    /\ \E services \in Listings(gTree.services) :
         \E interfaces \in Listings(gTree.interfaces) :
           gServices' = ServicesFrom(
                          ServicesFrom(gServices, SortedFiles(services)),
                          SortedFiles(interfaces))
    /\ gStages' = Append(gStages, "services")
    /\ UNCHANGED <<gpc, gTree, gEntities, gDtos, gControllers, gEdges, gGraph,
                   gRun, gFirst, notGenVars>>

call_process_controllers ==
    /\ gpc = "stages"
    /\ Len(gStages) < MaxStageCalls
    /\ \E listing \in Listings(gTree.controllers) :
         gControllers' = ControllersFrom(gControllers, SortedFiles(listing))
    /\ gStages' = Append(gStages, "controllers")
    /\ UNCHANGED <<gpc, gTree, gEntities, gDtos, gServices, gEdges, gGraph,
                   gRun, gFirst, notGenVars>>

StagesNext ==
    \/ call_process_entities
    \/ call_process_dtos
    \/ call_process_services
    \/ call_process_controllers

\* the generator is not running
GeneratorIdle ==
    /\ gpc = "idle"
    /\ gTree = [entities |-> {}, dtos |-> {}, services |-> {},
                interfaces |-> {}, controllers |-> {}]
    /\ gEntities = <<>>
    /\ gDtos = <<>>
    /\ gServices = <<>>
    /\ gControllers = <<>>
    /\ gEdges = <<>>
    /\ gStages = <<>>
    /\ gGraph = NotGenerated
    /\ gRun = 1
    /\ gFirst = NotGenerated

(***************************************************************************)
(* merge-graph.py followed by verify-contracts.py on the file the merger   *)
(* wrote (graph-baseline.json).                                            *)
(***************************************************************************)
\* controllers with the fields both tools read
PipeControllerInputs ==
    { <<>>,
      << [name |-> "PeopleController", route |-> <<"/","p">>,
          patterns |-> <<[name |-> "response_envelope", value |-> TRUE]>>,
          endpoints |-> << [name |-> "Get", method |-> mGET,
                            route |-> <<"{","i","d","K","e","y","}">>] >>] >>,
      << [name |-> "GroupsController", route |-> <<"/","g">>,
          patterns |-> <<[name |-> "idkey_routes", value |-> TRUE]>>,
          endpoints |-> << [name |-> "Get", method |-> mGET,
                            route |-> <<"{","i","d","}">>] >>] >> }

PipeComponentInputs ==
    { <<>>,
      << [name |-> "PersonList", apiCallsDirectly |-> FALSE] >>,
      << [name |-> "PersonCard", apiCallsDirectly |-> TRUE] >> }

\* a backend file: the sections named in present hold the content given
PipeBackend(present, dtos, controllers) ==
    [present |-> present, entities |-> <<[name |-> nA]>>, dtos |-> dtos,
     services |-> <<>>, controllers |-> controllers, edges |-> <<>>]

PipeFrontend(present, types, components) ==
    [present |-> present, types |-> types, api_functions |-> <<>>,
     hooks |-> <<[name |-> "usePeople"]>>, components |-> components,
     edges |-> <<>>]

BackendSections ==
    {"version", "generated_at", "entities", "dtos", "services", "controllers",
     "edges", "summary"}

FrontendSections ==
    {"types", "api_functions", "hooks", "components", "edges"}

\* the backend files: every section, one section missing, or {}
PipeBackendInputs ==
    {PipeBackend(BackendSections, d, c) :
        d \in MrgDtoInputs, c \in PipeControllerInputs}
    \cup {PipeBackend(BackendSections \ {s}, <<>>, <<>>) :
            s \in {"dtos", "controllers"}}
    \cup {EmptyDict}

PipeFrontendInputs ==
    {PipeFrontend(FrontendSections, t, k) :
        t \in MrgTypeInputs, k \in PipeComponentInputs}
    \cup {PipeFrontend(FrontendSections \ {s}, <<>>, <<>>) :
            s \in {"types", "hooks", "components"}}
    \cup {EmptyDict}

PipelineInit ==
    /\ mpc = "load"
    /\ mDisk \in [backend : {[status |-> "ok", graph |-> g] :
                               g \in PipeBackendInputs},
                  frontend : {[status |-> "ok", graph |-> g] :
                                g \in PipeFrontendInputs},
                  writable : BOOLEAN]
    /\ backend_graph = EmptyDict
    /\ frontend_graph = EmptyDict
    /\ inconsistencies = NoInconsistencies
    /\ merged_graph = EmptyDict
    /\ mOutput = NotWritten
    /\ mStdout = <<>>
    /\ mPhases = <<>>
    /\ mExit = NoExit

\* verify-contracts.py main(): the verifier is created on the path the
\* merger writes; the file is there when the merger saved it
verify_contracts_main ==
    /\ mpc = "exited"
    /\ vpc = "idle"
    /\ vpc' = "load"
    /\ vFile' = [exists |-> mOutput # NotWritten, json |-> mOutput # NotWritten]
    /\ vGraph' = IF mOutput # NotWritten THEN mOutput ELSE NoGraph
    /\ UNCHANGED <<violations, vRan, vExit, notVerVars>>

PipelineNext ==
    \/ MergerNext
    \/ verify_contracts_main
    \/ VerifierNext

(***************************************************************************)
(* tools/rag: index-codebase.py and reindex-changes.py.                    *)
(***************************************************************************)
\* the most files one run loops over
MaxFiles == 2

\* the most CHUNK_SIZE pieces of one file
MaxPiecesPerFile == 2

\* the collection does not exist
NoCollection == [exists |-> FALSE, points |-> {}]

\* a collection that holds the points
Collection(points) ==
    [exists |-> TRUE, points |-> points]

\* the call was not made, or it returned
NoFailure == "none"

\* chunk_file(content): the pieces of CHUNK_SIZE characters that are not
\* blank; the content of a file is the sequence of its pieces
chunk_file(content) ==
    SelectSeq(content, LAMBDA piece : piece # "blank")

\* the points index_file / reindex_file create for a file: one per chunk,
\* its id a hash of the path and the chunk index
PointsOf(rel_path, chunks) ==
    {[path |-> rel_path, chunk_index |-> i - 1, content |-> chunks[i]] :
        i \in 1..Len(chunks)}

\* client.upsert: a point replaces the point of the same id
Upsert(store, points) ==
    [store EXCEPT !.points =
        {point \in @ :
            \A new \in points :
                \/ point.path # new.path
                \/ point.chunk_index # new.chunk_index}
        \cup points]

\* client.delete with a filter on the payload's path
DeleteByPathMutKeepsAll(store, rel_path) ==
    store

DeleteByPath(store, rel_path) ==
    [store EXCEPT !.points = {point \in @ : point.path # rel_path}]

\* what one call leaves behind: the exception that left the function (raised),
\* the exception the function caught (caught), the value returned and the
\* points of the collection
Outcome(raised, caught, count, store) ==
    [raised |-> raised, caught |-> caught, count |-> count, store |-> store]

\* index_file(client, file_path); embedOk and upsertOk say whether
\* get_embeddings and client.upsert return or raise
index_file(store, file, embedOk, upsertOk) ==
    LET chunks == chunk_file(file.content)
    IN IF file.read # "ok" THEN Outcome(NoFailure, "read", 0, store)
       ELSE IF chunks = <<>> THEN Outcome(NoFailure, NoFailure, 0, store)
       ELSE IF ~embedOk THEN Outcome(NoFailure, "embed", 0, store)
       ELSE IF ~upsertOk THEN Outcome("upsert", NoFailure, 0, store)
       ELSE Outcome(NoFailure, NoFailure, Len(chunks),
                    Upsert(store, PointsOf(file.path, chunks)))

\* reindex_file(client, file_path), with delete_file_from_index; only
\* UnicodeDecodeError and PermissionError of the read are caught
reindex_file(store, file, deleteOk, embedOk, upsertOk) ==
    LET chunks == chunk_file(file.content)
        deleted == DeleteByPath(store, file.path)
    IN IF ~deleteOk THEN Outcome("delete", NoFailure, 0, store)
       ELSE IF file.read \in {"UnicodeDecodeError", "PermissionError"}
         THEN Outcome(NoFailure, "read", 0, deleted)
       ELSE IF file.read # "ok" THEN Outcome("read", NoFailure, 0, deleted)
       ELSE IF chunks = <<>> THEN Outcome(NoFailure, NoFailure, 0, deleted)
       ELSE IF ~embedOk THEN Outcome(NoFailure, "embed", 0, deleted)
       ELSE IF ~upsertOk THEN Outcome("upsert", NoFailure, 0, deleted)
       ELSE Outcome(NoFailure, NoFailure, Len(chunks),
                    Upsert(deleted, PointsOf(file.path, chunks)))

\* the failures a call adds to the record of the run
FailuresOf(position, outcome) ==
    (IF outcome.caught = NoFailure THEN <<>>
     ELSE << [file |-> position, call |-> outcome.caught, caught |-> TRUE] >>)
    \o (IF outcome.raised = NoFailure THEN <<>>
        ELSE << [file |-> position, call |-> outcome.raised, caught |-> FALSE] >>)

\* ---- inputs: the files of a run and the collection before it ----
Pieces ==
    UNION {[1..n -> {"code", "blank"}] : n \in 0..MaxPiecesPerFile}

RagFile(path, read, content) ==
    [path |-> path, read |-> read, content |-> content]

RagFilePool ==
    {RagFile("src/A.cs", "ok", content) : content \in Pieces}
    \cup {RagFile("src/B.ts", "ok", <<"code">>),
          RagFile("src/C.cs", "UnicodeDecodeError", <<>>),
          RagFile("src/D.js", "PermissionError", <<>>),
          RagFile("src/E.js", "IsADirectoryError", <<>>)}

\* the lists of files of distinct paths
RagFileLists ==
    {files \in UNION {[1..n -> RagFilePool] : n \in 0..MaxFiles} :
        \A i, j \in DOMAIN files : files[i].path = files[j].path => i = j}

RagStores ==
    {NoCollection, Collection({}),
     Collection(PointsOf("src/A.cs", <<"old", "old", "old">>)
                  \cup PointsOf("src/Gone.cs", <<"old">>))}

RagInit ==
    /\ ipc = "start"
    /\ iScript \in {"index-codebase", "reindex-changes"}
    /\ iFiles \in RagFileLists
    /\ iNext = 1
    /\ iStore \in RagStores
    /\ total_chunks = 0
    /\ iCounts = <<>>
    /\ iFailures = <<>>
    /\ iExit = NoExit

\* no indexing script runs
RagIdle ==
    /\ ipc = "idle"
    /\ iScript = "none"
    /\ iFiles = <<>>
    /\ iNext = 1
    /\ iStore = NoCollection
    /\ total_chunks = 0
    /\ iCounts = <<>>
    /\ iFailures = <<>>
    /\ iExit = NoExit

\* an exception no one catches ends the process with a traceback
Traceback(failures) ==
    /\ ipc' = "exited"
    /\ iExit' = 1
    /\ iFailures' = iFailures \o failures

\* index-codebase.py main(), up to the loop: the collection is recreated
index_main_start ==
    /\ ipc = "start"
    /\ iScript = "index-codebase"
    /\ \E deleteOk, createOk \in BOOLEAN :
         IF createOk
         THEN /\ iStore' = Collection({})
              /\ ipc' = "files"
              /\ iFailures' = iFailures
                   \o (IF deleteOk THEN <<>>
                       ELSE << [file |-> 0, call |-> "delete_collection",
                                caught |-> TRUE] >>)
              /\ UNCHANGED iExit
         ELSE /\ Traceback(<< [file |-> 0, call |-> "create_collection",
                               caught |-> FALSE] >>)
              /\ iStore' = IF deleteOk THEN NoCollection ELSE iStore
    /\ UNCHANGED <<iScript, iFiles, iNext, total_chunks, iCounts, notRagVars>>

\* reindex-changes.py main(), up to the loop
reindex_main_start ==
    /\ ipc = "start"
    /\ iScript = "reindex-changes"
    /\ IF iFiles = <<>>
       THEN /\ ipc' = "exited"
            /\ iExit' = 0
            /\ UNCHANGED iFailures
       ELSE \E getOk \in BOOLEAN :
              IF getOk /\ iStore # NoCollection
              THEN /\ ipc' = "files"
                   /\ UNCHANGED <<iExit, iFailures>>
              ELSE /\ ipc' = "exited"
                   /\ iExit' = 1
                   /\ iFailures' = Append(iFailures,
                        [file |-> 0, call |-> "get_collection", caught |-> TRUE])
    /\ UNCHANGED <<iScript, iFiles, iNext, iStore, total_chunks, iCounts,
                   notRagVars>>

\* one turn of a main loop with the outcome of the call it makes
LoopTurn(outcome) ==
    /\ iStore' = outcome.store
    /\ IF outcome.raised = NoFailure
       THEN /\ total_chunks' = total_chunks + outcome.count
            /\ iCounts' = Append(iCounts, outcome.count)
            /\ iNext' = iNext + 1
            /\ iFailures' = iFailures \o FailuresOf(iNext, outcome)
            /\ UNCHANGED <<ipc, iExit>>
       ELSE /\ Traceback(FailuresOf(iNext, outcome))
            /\ UNCHANGED <<total_chunks, iCounts, iNext>>
    /\ UNCHANGED <<iScript, iFiles, notRagVars>>

\* index-codebase.py main(): one turn of the loop over code_files
index_loop ==
    /\ ipc = "files"
    /\ iScript = "index-codebase"
    /\ iNext <= Len(iFiles)
    /\ \E embedOk, upsertOk \in BOOLEAN :
         LoopTurn(index_file(iStore, iFiles[iNext], embedOk, upsertOk))

\* reindex-changes.py main(): one turn of the loop over changed_files
reindex_loop ==
    /\ ipc = "files"
    /\ iScript = "reindex-changes"
    /\ iNext <= Len(iFiles)
    /\ \E deleteOk, embedOk, upsertOk \in BOOLEAN :
         LoopTurn(reindex_file(iStore, iFiles[iNext], deleteOk, embedOk,
                               upsertOk))

\* either main(): the loop is over, the totals are printed
main_return ==
    /\ ipc = "files"
    /\ iNext > Len(iFiles)
    /\ ipc' = "exited"
    /\ iExit' = 0
    /\ UNCHANGED <<iScript, iFiles, iNext, iStore, total_chunks, iCounts,
                   iFailures, notRagVars>>

RagNext ==
    \/ index_main_start
    \/ reindex_main_start
    \/ index_loop
    \/ reindex_loop
    \/ main_return

\* ======================= specifications =================================

\* two runs of generate-backend.py on one source tree
InitGenerator ==
    GeneratorInit /\ VerifierIdle /\ MergerIdle /\ RoutesIdle /\ DepsIdle
    /\ BalancedIdle
    /\ RagIdle

SpecGenerator ==
    InitGenerator /\ [][GeneratorNext]_vars

\* one call of CSharpParser.extract_constructor_dependencies
InitDeps ==
    DepsInit /\ VerifierIdle /\ MergerIdle /\ RoutesIdle /\ GeneratorIdle
    /\ BalancedIdle
    /\ RagIdle

SpecDeps ==
    InitDeps /\ [][DepsNext]_vars

\* one call of GraphMerger._routes_match
InitRoutes ==
    RoutesInit /\ VerifierIdle /\ MergerIdle /\ DepsIdle /\ GeneratorIdle
    /\ BalancedIdle
    /\ RagIdle

SpecRoutes ==
    InitRoutes /\ [][RoutesNext]_vars

\* a run of verify-contracts.py on one graph file
InitVerifier ==
    VerifierInit /\ MergerIdle /\ RoutesIdle /\ DepsIdle /\ GeneratorIdle
    /\ BalancedIdle
    /\ RagIdle

SpecVerifier ==
    InitVerifier /\ [][VerifierNext]_vars

\* a run of merge-graph.py on two input files
InitMerger ==
    MergerInit /\ VerifierIdle /\ RoutesIdle /\ DepsIdle /\ GeneratorIdle
    /\ BalancedIdle
    /\ RagIdle

SpecMerger ==
    InitMerger /\ [][MergerNext]_vars

\* one call of extract_class_body or of _extract_balanced_parens
InitBalanced ==
    BalancedInit /\ VerifierIdle /\ MergerIdle /\ RoutesIdle /\ DepsIdle
    /\ GeneratorIdle
    /\ RagIdle

SpecBalanced ==
    InitBalanced /\ [][BalancedNext]_vars

\* a run of merge-graph.py on two files that load, for the matching rules
InitDetection ==
    DetectionInit /\ VerifierIdle /\ RoutesIdle /\ DepsIdle /\ GeneratorIdle
    /\ BalancedIdle
    /\ RagIdle

SpecDetection ==
    InitDetection /\ [][MergerNext]_vars

\* detect_inconsistencies and merge of one GraphMerger in either order
InitCalls ==
    CallsInit /\ VerifierIdle /\ RoutesIdle /\ DepsIdle /\ GeneratorIdle
    /\ BalancedIdle
    /\ RagIdle

SpecCalls ==
    InitCalls /\ [][CallsNext]_vars

\* calls of _routes_match on short routes, for the laws of the relation
InitRelation ==
    RelationInit /\ VerifierIdle /\ MergerIdle /\ DepsIdle /\ GeneratorIdle
    /\ BalancedIdle
    /\ RagIdle

SpecRelation ==
    InitRelation /\ [][RoutesNext]_vars

\* the merger and the verifier on the same DTOs and types
InitAlignment ==
    AlignmentInit /\ RoutesIdle /\ DepsIdle /\ GeneratorIdle /\ BalancedIdle
    /\ RagIdle

SpecAlignment ==
    InitAlignment /\ [][AlignmentNext]_vars

\* the five checks of a loaded verifier in any order
InitAnyOrder ==
    AnyOrderInit /\ MergerIdle /\ RoutesIdle /\ DepsIdle /\ GeneratorIdle
    /\ BalancedIdle
    /\ RagIdle

SpecAnyOrder ==
    InitAnyOrder /\ [][AnyOrderNext]_vars

\* the process_* methods of one generator in any order
InitStages ==
    StagesInit /\ VerifierIdle /\ MergerIdle /\ RoutesIdle /\ DepsIdle
    /\ BalancedIdle
    /\ RagIdle

SpecStages ==
    InitStages /\ [][StagesNext]_vars

\* runs of the generator on trees with several matching names
InitEdges ==
    EdgesInit /\ VerifierIdle /\ MergerIdle /\ RoutesIdle /\ DepsIdle
    /\ BalancedIdle
    /\ RagIdle

SpecEdges ==
    InitEdges /\ [][GeneratorNext]_vars

\* a run of index-codebase.py or of reindex-changes.py
InitRag ==
    RagInit /\ VerifierIdle /\ MergerIdle /\ RoutesIdle /\ DepsIdle
    /\ GeneratorIdle /\ BalancedIdle

SpecRag ==
    InitRag /\ [][RagNext]_vars

\* the merger, then the verifier on the merger's output
InitPipeline ==
    PipelineInit /\ VerifierIdle /\ RoutesIdle /\ DepsIdle /\ GeneratorIdle
    /\ BalancedIdle /\ RagIdle

SpecPipeline ==
    InitPipeline /\ [][PipelineNext]_vars

\* ======================= properties: merge-graph.py =====================

\* load_graphs fails: an input file is missing or is not valid JSON
MrgLoadFails ==
    \/ mDisk.backend.status # "ok"
    \/ mDisk.frontend.status # "ok"

\* s is a prefix of t
IsPrefix(s, t) ==
    Len(s) <= Len(t) /\ SubSeq(t, 1, Len(s)) = s

\* C2: in every run of the merger the phases happen in the order Load,
\* Detect inconsistencies, Merge, Save (then the report): the phases entered
\* so far are always an initial part of that order, so none runs twice or
\* before its predecessor; after a failed load no other phase is entered,
\* and after a failed save nothing follows
C2_PhaseOrder ==
    /\ IsPrefix(mPhases, <<"load", "detect", "merge", "save", "report">>)
    /\ (MrgLoadFails /\ mPhases # <<>>) => mPhases = <<"load">>
    /\ ~mDisk.writable => "report" \notin Range(mPhases)
    /\ mpc = "exited" => mPhases # <<>>

\* a run has gone through Load, Detect, Merge and Save
C2_Witness ==
    /\ mpc = "exited"
    /\ mPhases = <<"load", "detect", "merge", "save", "report">>

\* C3: the merger exits 1 exactly when loading an input graph fails
\* (missing file or invalid JSON) or saving the merged graph fails, and 0 in
\* every other run, whatever the number of detected inconsistencies
C3_ExitCode ==
    IF mpc = "exited"
    THEN mExit = (IF MrgLoadFails \/ ~mDisk.writable THEN 1 ELSE 0)
    ELSE mExit = NoExit

\* a run that detected an inconsistency of each of the four kinds exited 0
C3_Witness ==
    /\ mpc = "exited"
    /\ mExit = 0
    /\ \A k \in DOMAIN inconsistencies : inconsistencies[k] # <<>>

\* the report of print_inconsistency_report is on standard output
ReportPrinted ==
    \E i \in 1..Len(mStdout) : mStdout[i].kind = "report_header"

\* C4 as stated: every run of the merger prints the inconsistency report
C4_AsStated ==
    mpc = "exited" => ReportPrinted

\* C4 amended: a run of the merger prints the inconsistency report exactly
\* when both graphs loaded and the merged graph was saved, whether or not
\* any inconsistency was detected; a run that fails to load or to save
\* exits 1 without printing it
C4_ReportPrinted ==
    mpc = "exited" =>
        /\ ReportPrinted <=> (~MrgLoadFails /\ mDisk.writable)
        /\ ReportPrinted => mStdout[Len(mStdout) - 2].kind = "report_total"
        /\ ~ReportPrinted => mExit = 1

\* a run that detected no inconsistency has printed the report
C4_Witness ==
    /\ mpc = "exited"
    /\ ReportPrinted
    /\ \A k \in DOMAIN inconsistencies : inconsistencies[k] = <<>>

\* the edges section of a loaded graph, [] when the graph has none
EdgesOf(graph) ==
    IF "edges" \in graph.present THEN graph.edges ELSE <<>>

\* C5: merge() produces an edge list that is the backend edge list followed
\* by the frontend edge list, nothing removed, deduplicated or reordered, so
\* its length is the sum of the two lengths, and stats.total_edges is that
\* length
C5_EdgesConcatenated ==
    "merge" \in Range(mPhases) =>
        /\ Len(merged_graph.edges)
             = Len(EdgesOf(backend_graph)) + Len(EdgesOf(frontend_graph))
        /\ \A i \in 1..Len(EdgesOf(backend_graph)) :
             merged_graph.edges[i] = EdgesOf(backend_graph)[i]
        /\ \A i \in 1..Len(EdgesOf(frontend_graph)) :
             merged_graph.edges[Len(EdgesOf(backend_graph)) + i]
               = EdgesOf(frontend_graph)[i]
        /\ merged_graph.stats.total_edges = Len(merged_graph.edges)

\* merge() has run on two graphs that share an edge
C5_Witness ==
    /\ "merge" \in Range(mPhases)
    /\ EdgesOf(backend_graph) # <<>>
    /\ \E i \in 1..Len(EdgesOf(frontend_graph)) :
         EdgesOf(frontend_graph)[i] = EdgesOf(backend_graph)[1]

\* ======================= properties: verify-contracts.py ================

\* the graph file cannot be loaded: missing, not JSON, or a section missing
VerLoadFails ==
    \/ ~vFile.exists
    \/ ~vFile.json
    \/ \E s \in {"controllers", "dtos", "components", "hooks"} :
         s \notin vGraph.present

\* some finding of the given severity is recorded in some check's list
VerHasFinding(severity) ==
    \E k \in DOMAIN violations :
        \E i \in 1..Len(violations[k]) : violations[k][i].severity = severity

\* C1: a run of the verifier exits 2 when the graph file is missing, is not
\* valid JSON or lacks one of controllers, dtos, components, hooks, and then
\* no check has run; otherwise all five checks have run and it exits 1 if
\* some finding has severity FAIL and 0 if none has.  WARN findings do not
\* change the exit code.  No exit code is set before the run ends.
C1_ExitCode ==
    IF vpc = "exited"
    THEN IF VerLoadFails
         THEN vExit = 2 /\ vRan = <<>> /\ violations = NoViolations
         ELSE /\ vRan = CheckKeys
              /\ vExit = (IF VerHasFinding("FAIL") THEN 1 ELSE 0)
    ELSE vExit = NoExit

\* a run that recorded a WARN finding and no FAIL finding has exited 0
C1_Witness ==
    /\ vpc = "exited"
    /\ VerHasFinding("WARN")
    /\ ~VerHasFinding("FAIL")
    /\ vExit = 0

\* the number of check 2 findings recorded for property p of DTO dto
IntegerIdFindingCount(dto, p) ==
    Cardinality({i \in 1..Len(violations.check_2) :
        /\ violations.check_2[i].severity = "FAIL"
        /\ violations.check_2[i].item = dto.name
        /\ violations.check_2[i].detail = <<"integer_id", p.name, p.type>>})

\* check 2 has run and recorded one FAIL finding for exactly the DTO
\* properties that satisfy Flag
IntegerIdsFlaggedBy(Flag(_, _)) ==
    "check_2" \in Range(vRan) =>
        \A d \in 1..Len(vGraph.dtos) :
            \A q \in 1..Len(vGraph.dtos[d].properties) :
                LET p == vGraph.dtos[d].properties[q]
                IN IntegerIdFindingCount(vGraph.dtos[d], p)
                     = (IF Flag(p.name, p.type) THEN 1 ELSE 0)

\* C7 as stated: check 2 records a FAIL finding for a DTO property if and
\* only if the property is named exactly Id and its type string contains the
\* substring int
C7_AsStated ==
    IntegerIdsFlaggedBy(LAMBDA n, t : n = <<"I","d">> /\ Contains(t, <<"i","n","t">>))

\* C7 amended: check 2 records a FAIL finding for a DTO property if and only
\* if the property is named exactly Id and its type string, lowercased,
\* contains the substring int (int, int? and also Int32 are flagged); a
\* property named PersonId and an Id of type string are never flagged
C7_IntegerIds ==
    /\ IntegerIdsFlaggedBy(
           LAMBDA n, t : n = <<"I","d">> /\ Contains(Lower(t), <<"i","n","t">>))
    /\ "check_2" \in Range(vRan) =>
         \A i \in 1..Len(violations.check_2) :
             /\ violations.check_2[i].severity = "FAIL"
             /\ violations.check_2[i].detail[2] = <<"I","d">>
             /\ violations.check_2[i].detail[3] # <<"s","t","r","i","n","g">>

\* check 2 has run on a graph with an Id of type Int32, which it flagged,
\* and with a PersonId of type int, which it did not
C7_Witness ==
    /\ "check_2" \in Range(vRan)
    /\ \E i \in 1..Len(violations.check_2) :
         violations.check_2[i].detail = <<"integer_id", pId, tInt32>>
    /\ \E d \in 1..Len(vGraph.dtos) :
         \E q \in 1..Len(vGraph.dtos[d].properties) :
             vGraph.dtos[d].properties[q] = Prop(pPersonId, tInt)

\* ======================= properties: _routes_match ======================

\* the pieces without the slash pieces at both ends
RECURSIVE TrimSlashes(_)
TrimSlashes(pieces) ==
    IF pieces = <<>> THEN <<>>
    ELSE IF Head(pieces) \in SlashPieces THEN TrimSlashes(Tail(pieces))
    ELSE IF pieces[Len(pieces)] \in SlashPieces
         THEN TrimSlashes(SubSeq(pieces, 1, Len(pieces) - 1))
    ELSE pieces

\* the number of slashes pieces i..j hold when all of them are slash
\* pieces, 0 otherwise
RECURSIVE SlashRun(_, _, _)
SlashRun(pieces, i, j) ==
    IF i > j THEN 0
    ELSE IF pieces[i] \notin SlashPieces THEN 0
    ELSE IF i = j THEN Len(pieces[i])
    ELSE IF SlashRun(pieces, i + 1, j) = 0 THEN 0
    ELSE Len(pieces[i]) + SlashRun(pieces, i + 1, j)

\* between two segments the route has a single or a doubled slash
SlashesAtMostDoubled(pieces) ==
    LET t == TrimSlashes(pieces)
    IN \A i, j \in 1..Len(t) : i <= j => SlashRun(t, i, j) <= 2

\* the path segments of a route, placeholders without their names: a
\* segment is the list of its literal characters and placeholder marks
RECURSIVE SegmentsFrom(_, _)
SegmentsFrom(pieces, current) ==
    IF pieces = <<>>
    THEN IF current = <<>> THEN <<>> ELSE <<current>>
    ELSE IF Head(pieces) \in SlashPieces
         THEN (IF current = <<>> THEN <<>> ELSE <<current>>)
                \o SegmentsFrom(Tail(pieces), <<>>)
    ELSE IF Head(pieces) \in PlaceholderPieces
         THEN SegmentsFrom(Tail(pieces), Append(current, "placeholder"))
    ELSE SegmentsFrom(Tail(pieces), current \o Head(pieces))

Segments(pieces) ==
    SegmentsFrom(pieces, <<>>)

\* C6: _routes_match(a, b) is true when a and b differ only in slashes at
\* the ends, in doubled slashes or in the names of their placeholders, and
\* false when a literal segment differs: on routes whose segments are
\* separated by single or doubled slashes, the result is TRUE exactly when
\* both routes have the same segments once placeholder names are dropped.
C6_RoutesMatch ==
    (/\ rpc = "returned"
     /\ SlashesAtMostDoubled(rBackend)
     /\ SlashesAtMostDoubled(rFrontend))
    => (rResult <=> Segments(rBackend) = Segments(rFrontend))

\* a//{id} against a/{idKey}: a doubled slash and a placeholder name differ,
\* the call has returned TRUE
C6_Witness ==
    /\ rpc = "returned"
    /\ rBackend = << <<"a">>, <<"/","/">>, sIdPlaceholder >>
    /\ rFrontend = << <<"a">>, <<"/">>, sIdKeyPlaceholder >>
    /\ RouteText(rBackend) # RouteText(rFrontend)
    /\ rResult = TRUE

\* ======================= properties: extract_constructor_dependencies ===

\* record PersonDto(required string Name, required IService Svc)
PersonDtoDeclaration ==
    Declaration(<< sRequired \o <<" ">> \o sString \o <<" ">> \o <<"N","a","m","e">>,
                   sRequired \o <<" ">> \o sIService \o <<" ">> \o <<"S","v","c">> >>)

\* C10: for record PersonDto(required string Name, required IService Svc)
\* extract_constructor_dependencies returns exactly ["IService"]: required
\* is consumed as a modifier and string is not reported.
C10_AsStated ==
    (dpc = "returned" /\ dContent = PersonDtoDeclaration)
    => dependencies = << sIService >>

\* ======================= properties: generate-backend.py ================

\* the number of edges from source to target with that relationship
RECURSIVE EdgeCount(_, _, _, _)
EdgeCount(edges, source, target, relationship) ==
    IF edges = <<>> THEN 0
    ELSE (IF /\ Head(edges).source = source
             /\ Head(edges).target = target
             /\ Head(edges).relationship = relationship
          THEN 1 ELSE 0)
           + EdgeCount(Tail(edges), source, target, relationship)

\* the number of maps_to edges that leave source
RECURSIVE MapsToCount(_, _)
MapsToCount(edges, source) ==
    IF edges = <<>> THEN 0
    ELSE (IF /\ Head(edges).source = source
             /\ Head(edges).relationship = "maps_to"
          THEN 1 ELSE 0)
           + MapsToCount(Tail(edges), source)

\* the DTO files process_dtos does not skip
ReadDtoFiles ==
    {f \in gTree.dtos : f.content # NoContent /\ f.content.namespace # None}

\* how often the file declares the name
DeclaredIn(file, name) ==
    Cardinality({i \in 1..Len(file.content.declarations) :
                   file.content.declarations[i] = name})

RECURSIVE DeclaredInAll(_, _)
DeclaredInAll(files, name) ==
    IF files = {} THEN 0
    ELSE LET f == CHOOSE f \in files : TRUE
         IN DeclaredIn(f, name) + DeclaredInAll(files \ {f}, name)

\* how often the tree declares the name in the files that are read
DeclarationCount(name) ==
    DeclaredInAll(ReadDtoFiles, name)

\* C8 as stated: after generate(), every DTO of the registry with a
\* linked_entity E has exactly one edge (DTO, E, maps_to).
C8_AsStated ==
    gpc = "done" =>
      \A i \in 1..Len(gDtos) :
        gDtos[i].linked_entity # None =>
          EdgeCount(gEdges, gDtos[i].name, gDtos[i].linked_entity,
                    "maps_to") = 1

\* C8: after generate(), every DTO of the registry with a linked_entity E
\* has one edge (DTO, E, maps_to) for each declaration of its name in a DTO
\* file that is read, at least one, and no maps_to edge to another target;
\* PersonSummaryDto is linked to Person when Person is an entity and no
\* other entity name is a prefix of PersonSummary.
C8_MapsToEdges ==
    gpc = "done" =>
      /\ \A i \in 1..Len(gDtos) :
           LET dto == gDtos[i]
           IN /\ DeclarationCount(dto.name) >= 1
              /\ MapsToCount(gEdges, dto.name)
                   = (IF dto.linked_entity = None THEN 0
                      ELSE DeclarationCount(dto.name))
              /\ dto.linked_entity # None =>
                   EdgeCount(gEdges, dto.name, dto.linked_entity, "maps_to")
                     = DeclarationCount(dto.name)
      /\ (/\ nPersonSummaryDto \in Keys(gDtos)
          /\ nPerson \in Keys(gEntities)
          /\ \A e \in Keys(gEntities) :
               StartsWith(nPersonSummary, e) => e = nPerson)
         => Lookup(gDtos, nPersonSummaryDto).linked_entity = nPerson

\* PersonSummaryDto, declared once, is linked to Person by one edge, and
\* PersonDto, declared in two files, has two edges to Person
C8_Witness ==
    /\ gpc = "done"
    /\ nPersonSummaryDto \in Keys(gDtos)
    /\ Lookup(gDtos, nPersonSummaryDto).linked_entity = nPerson
    /\ DeclarationCount(nPersonSummaryDto) = 1
    /\ EdgeCount(gEdges, nPersonSummaryDto, nPerson, "maps_to") = 1
    /\ nPersonDto \in Keys(gDtos)
    /\ EdgeCount(gEdges, nPersonDto, nPerson, "maps_to") = 2

\* C9: two runs of the generator on an unchanged tree return the same
\* entities, dtos, services and controllers registries; generated_at may
\* differ.
C9_Idempotent ==
    (gpc = "done" /\ gRun = 2) =>
      /\ gGraph.entities = gFirst.entities
      /\ gGraph.dtos = gFirst.dtos
      /\ gGraph.services = gFirst.services
      /\ gGraph.controllers = gFirst.controllers

\* the second run has returned at another time, on a tree in which two
\* DTO files declare the same name and all four registries are filled
C9_Witness ==
    /\ gpc = "done"
    /\ gRun = 2
    /\ gGraph.generated_at # gFirst.generated_at
    /\ DeclarationCount(nPersonDto) = 2
    /\ Cardinality(ReadDtoFiles) = 2
    /\ gGraph.entities # <<>>
    /\ gGraph.dtos # <<>>
    /\ gGraph.services # <<>>
    /\ gGraph.controllers # <<>>

\* ======================= properties: balanced extraction ================

\* the opening and the closing delimiter a function scans for
OpenOf(function) ==
    IF function = "extract_class_body" THEN "{" ELSE "("

CloseOf(function) ==
    IF function = "extract_class_body" THEN "}" ELSE ")"

\* what a function returns when the text ends before the delimiter closes
FailureOf(function) ==
    IF function = "extract_class_body" THEN PyNone ELSE <<>>

\* how often ch occurs in content[a..b] (1-based, both ends included)
CountOf(content, ch, a, b) ==
    Cardinality({i \in a..b : content[i] = ch})

\* the 1-based position of the delimiter that closes the one at the 1-based
\* position o: the first closing delimiter after o up to which as many
\* delimiters are closed as are opened; 0 when there is none
MatchingClose(content, o, open, close) ==
    LET qs == {q \in (o + 1)..Len(content) :
                  /\ content[q] = close
                  /\ CountOf(content, open, o, q)
                       = CountOf(content, close, o, q)}
    IN IF qs = {} THEN 0 ELSE CHOOSE q \in qs : \A k \in qs : q <= k

\* C11: a balanced-body extraction started at an opening brace or
\* parenthesis returns exactly the text between that delimiter and the
\* delimiter that closes it, nested delimiters included and the outer pair
\* excluded; when the text ends before the delimiter is closed it returns
\* None (class body) or the empty string (parameter list), never a part of
\* the body.
C11_BalancedBody ==
    (/\ bpc = "returned"
     /\ bStart >= 0 /\ bStart < Len(bContent)
     /\ bContent[bStart + 1] = OpenOf(bFunction))
    => LET q == MatchingClose(bContent, bStart + 1,
                              OpenOf(bFunction), CloseOf(bFunction))
       IN bResult = IF q = 0 THEN FailureOf(bFunction)
                    ELSE SubSeq(bContent, bStart + 2, q - 1)

\* the class body " a { b } c " has been returned for "{ a { b } c }"
C11_Witness ==
    /\ bpc = "returned"
    /\ bFunction = "extract_class_body"
    /\ bContent = sClassA \o sNestedBraces
    /\ bStart = Len(sClassA)
    /\ bResult = SubSeq(sNestedBraces, 2, Len(sNestedBraces) - 1)

\* ======================= properties: detection and mappings =============

\* detect_inconsistencies has run
Detected ==
    "detect" \in Range(mPhases)

\* the name d with a trailing Dto removed
WithoutTrailingDto(d) ==
    IF Len(d) >= 3 /\ SubSeq(d, Len(d) - 2, Len(d)) = <<"D","t","o">>
    THEN SubSeq(d, 1, Len(d) - 3)
    ELSE d

\* the names of the loaded backend DTOs and frontend types
LoadedDtoNames ==
    Keys(GraphGet(backend_graph, "dtos"))

LoadedTypeNames ==
    Keys(GraphGet(frontend_graph, "types"))

\* a frontend type is named as d, or as d without its trailing Dto when
\* case is ignored
HasTypeFor(d) ==
    \/ d \in LoadedTypeNames
    \/ \E t \in LoadedTypeNames : Lower(t) = Lower(WithoutTrailingDto(d))

\* C12: after detect_inconsistencies a backend DTO D is listed in
\* dtos_without_types if and only if no frontend type has a name identical
\* to D and no frontend type name equals, ignoring case, D with a trailing
\* Dto removed.
C12_DtosWithoutTypes ==
    Detected =>
        \A d \in LoadedDtoNames :
            d \in Range(inconsistencies.dtos_without_types) <=> ~HasTypeFor(d)

\* ADto is listed although a type adto exists, aDTO is matched to that type
C12_Witness ==
    /\ Detected
    /\ LoadedDtoNames = {nADto, nLowerADTO}
    /\ LoadedTypeNames = {nLowerAdto}
    /\ inconsistencies.dtos_without_types = <<nADto>>

\* the frontend type detection matched the DTO d to, None when there is none
MatchedTypeOf(d) ==
    Merger_FindMatchingType(frontend_graph, d)

\* the property names of a loaded DTO and of a loaded type
DtoPropertyNames(d) ==
    Keys(Lookup(GraphGet(backend_graph, "dtos"), d).properties)

TypePropertyNames(t) ==
    Keys(Lookup(GraphGet(frontend_graph, "types"), t).properties)

\* the property name p with its first character lowercased
CamelCase(p) ==
    IF p = <<>> THEN p ELSE <<LowerChar(Head(p))>> \o Tail(p)

\* the messages of the properties p, of the matched DTOs, that Missing(p,
\* names) holds for, names being the property names of the matched type
MismatchesWhere(Missing(_, _)) ==
    UNION { { MismatchMessage(d, p, MatchedTypeOf(d)) :
                p \in {q \in DtoPropertyNames(d) :
                          Missing(q, TypePropertyNames(MatchedTypeOf(d)))} } :
            d \in {e \in LoadedDtoNames : MatchedTypeOf(e) # None} }

\* C13 as stated: for a DTO that detection matched to a type, a property is
\* reported in property_mismatches if and only if its camelCase form is
\* present among the type's property names neither exactly nor when case is
\* ignored.
C13_AsStated ==
    Detected =>
        Range(inconsistencies.property_mismatches)
          = MismatchesWhere(LAMBDA p, names :
                \A t \in names : Lower(t) # Lower(CamelCase(p)))

\* C13 (amended): for a DTO that detection matched to a type, a property is
\* reported in property_mismatches, as "{Dto}.{Prop} missing in {Type}", if
\* and only if neither its camelCase form nor the property name itself is
\* one of the type's property names, compared exactly; a property the type
\* has only in another case is reported.
C13_PropertyMismatches ==
    Detected =>
        Range(inconsistencies.property_mismatches)
          = MismatchesWhere(LAMBDA p, names :
                CamelCase(p) \notin names /\ p \notin names)

\* ADto has Name and PersonId, its type A has Name and personID: Name is
\* found under its own name, PersonId is reported
C13_Witness ==
    /\ Detected
    /\ LoadedDtoNames = {nADto}
    /\ MatchedTypeOf(nADto) = nA
    /\ DtoPropertyNames(nADto) = {pName, pPersonId}
    /\ TypePropertyNames(nA) = {pName, pPersonID}
    /\ inconsistencies.property_mismatches
         = << nADto \o <<".">> \o pPersonId \o sMissingIn \o nA >>

\* the loaded controllers and api functions
LoadedControllers ==
    GraphGet(backend_graph, "controllers")

LoadedApiFunctions ==
    GraphGet(frontend_graph, "api_functions")

\* the endpoints of the loaded controllers: controller index, endpoint index
LoadedEndpoints ==
    UNION { { <<c, e>> : e \in 1..Len(LoadedControllers[c].endpoints) } :
            c \in 1..Len(LoadedControllers) }

\* controller.route + "/" + endpoint.route with // collapsed
FullRouteOf(x) ==
    StrReplace(LoadedControllers[x[1]].route \o <<"/">>
                 \o LoadedControllers[x[1]].endpoints[x[2]].route,
               <<"/","/">>, <<"/">>)

MethodOf(x) ==
    LoadedControllers[x[1]].endpoints[x[2]].method

\* an api function has the method of the endpoint, case ignored, and an
\* endpoint that _routes_match the full route
CoveredEndpoint(x) ==
    \E f \in 1..Len(LoadedApiFunctions) :
        /\ Lower(LoadedApiFunctions[f].method) = Lower(MethodOf(x))
        /\ RoutesMatch(FullRouteOf(x), LoadedApiFunctions[f].endpoint)

\* the entry of missing_endpoints for an endpoint
EntryOf(x) ==
    Upper(MethodOf(x)) \o <<" ">> \o FullRouteOf(x) \o sNoFrontendApiFunction

\* how often an entry occurs in a list
Occurs(list, entry) ==
    Cardinality({i \in 1..Len(list) : list[i] = entry})

\* C14: a controller endpoint is listed in missing_endpoints if and only if
\* no frontend api function has the same HTTP method, case ignored, and an
\* endpoint that _routes_match the full route controller.route + "/" +
\* endpoint.route with // collapsed; every uncovered endpoint is listed
\* exactly once (an entry occurs as often as there are uncovered endpoints
\* it stands for) and a covered endpoint is never listed.
C14_MissingEndpoints ==
    Detected =>
        /\ \A x \in LoadedEndpoints :
              Occurs(inconsistencies.missing_endpoints, EntryOf(x))
                = Cardinality({y \in LoadedEndpoints :
                                 ~CoveredEndpoint(y) /\ EntryOf(y) = EntryOf(x)})
        /\ Range(inconsistencies.missing_endpoints)
              \subseteq {EntryOf(x) : x \in LoadedEndpoints}

\* controller /p with GET {idKey} and get /, api functions get p/{id}/ and
\* POST /q: the first endpoint is covered under another parameter name and
\* another case of the method, the second is listed once
C14_Witness ==
    /\ Detected
    /\ Len(LoadedControllers) = 1
    /\ LoadedControllers[1].route = <<"/","p">>
    /\ Len(LoadedControllers[1].endpoints) = 2
    /\ CoveredEndpoint(<<1, 1>>)
    /\ MethodOf(<<1, 1>>) = mGET
    /\ \E f \in 1..Len(LoadedApiFunctions) :
          /\ LoadedApiFunctions[f].method = mGetLower
          /\ RoutesMatch(FullRouteOf(<<1, 1>>), LoadedApiFunctions[f].endpoint)
          /\ FullRouteOf(<<1, 1>>) # LoadedApiFunctions[f].endpoint
    /\ ~CoveredEndpoint(<<1, 2>>)
    /\ inconsistencies.missing_endpoints = << EntryOf(<<1, 2>>) >>

\* merge has run after detect_inconsistencies
Merged ==
    Detected /\ "merge" \in Range(mPhases)

\* the frontend type the matching rule gives the DTO d: the type named as
\* d, else the first type, in the order of the types section, named as d
\* without its trailing Dto when case is ignored; None when there is none
TypeMatching(d) ==
    LET names == KeySeq(GraphGet(frontend_graph, "types"))
        hits == {i \in 1..Len(names) :
                    Lower(names[i]) = Lower(WithoutTrailingDto(d))}
    IN IF d \in LoadedTypeNames THEN d
       ELSE IF hits = {} THEN None
       ELSE names[CHOOSE i \in hits : \A k \in hits : i <= k]

\* the values cross_layer_mappings holds under a key
MappingsOf(key) ==
    LET mappings == GraphGet(merged_graph, "cross_layer_mappings")
    IN {mappings[i].value : i \in {k \in 1..Len(mappings) :
                                      mappings[k].name = key}}

\* C15: after Detect and Merge have run on the same loaded graphs every
\* backend DTO D is in exactly one of two states: D is listed in
\* dtos_without_types and cross_layer_mappings has no key dto:<D>, or D is
\* not listed and cross_layer_mappings maps dto:<D> to type:<T>, T being the
\* frontend type detection matched D to.
C15_MappingsAgreeWithDetection ==
    Merged =>
        \A d \in LoadedDtoNames :
            IF d \in Range(inconsistencies.dtos_without_types)
            THEN MappingsOf(sDtoColon \o d) = {}
            ELSE /\ TypeMatching(d) # None
                 /\ MappingsOf(sDtoColon \o d)
                      = {sTypeColon \o TypeMatching(d)}

\* ADto is mapped to the type a, BDto is listed
C15_Witness ==
    /\ Merged
    /\ LoadedDtoNames = {nADto, nBDto}
    /\ LoadedTypeNames = {nLowerA}
    /\ inconsistencies.dtos_without_types = <<nBDto>>
    /\ MappingsOf(sDtoColon \o nADto) = {sTypeColon \o nLowerA}
    /\ MappingsOf(sDtoColon \o nBDto) = {}

\* ======================= properties: verifier and merger ================

\* check 5 of the verifier has run
Checked5 ==
    "check_5" \in Range(vRan)

\* check 5 gave the DTO d the FAIL 'No corresponding frontend type found'
NoTypeFailure(d) ==
    ContractViolation("Check 5", "FAIL", d, "no_frontend_type")
        \in Range(violations.check_5)

\* the names of the DTOs and of the types in the verifier's graph
VerifiedDtoNames ==
    Keys(GraphGet(vGraph, "dtos"))

VerifiedTypeNames ==
    Keys(GraphGet(vGraph, "types"))

\* C16 as stated: a DTO that check 5 does not skip receives the FAIL 'No
\* corresponding frontend type found' if and only if the merger lists it in
\* dtos_without_types on the same DTOs and types.
C16_AsStated ==
    (Checked5 /\ Detected) =>
        \A d \in VerifiedDtoNames :
            ~SkippedByCheck5(d) =>
                (NoTypeFailure(d)
                   <=> d \in Range(inconsistencies.dtos_without_types))

\* C16 (amended): for every DTO name and every set of frontend type names
\* the verifier's matching finds a type exactly when the merger's matching
\* finds one; when the graph has at least one frontend type, a DTO that
\* check 5 does not skip receives the FAIL if and only if the merger lists
\* it in dtos_without_types; when the graph has no frontend type, check 5
\* reports nothing while the merger lists every DTO.
C16_SameMatching ==
    (Checked5 /\ Detected) =>
        /\ VerifiedDtoNames = LoadedDtoNames
        /\ VerifiedTypeNames = LoadedTypeNames
        /\ \A d \in VerifiedDtoNames :
              (Verifier_FindMatchingType(d, VerifiedTypeNames) # {})
                <=> (Merger_FindMatchingType(frontend_graph, d) # None)
        /\ IF VerifiedTypeNames # {}
           THEN \A d \in VerifiedDtoNames :
                    ~SkippedByCheck5(d) =>
                        (NoTypeFailure(d)
                           <=> d \in Range(inconsistencies.dtos_without_types))
           ELSE /\ violations.check_5 = <<>>
                /\ Range(inconsistencies.dtos_without_types) = LoadedDtoNames

\* ADto and BDto against the type a: both tools match ADto without regard
\* to case, the verifier fails BDto and the merger lists it
C16_Witness ==
    /\ Checked5 /\ Detected
    /\ VerifiedDtoNames = {nADto, nBDto}
    /\ VerifiedTypeNames = {nLowerA}
    /\ NoTypeFailure(nBDto) /\ ~NoTypeFailure(nADto)
    /\ inconsistencies.dtos_without_types = <<nBDto>>

\* ======================= properties: order of the checks ================

\* the findings lists a check can give on a graph, whatever ran before it
FindingsOf(key, graph) ==
    CASE key = "check_1" -> {ResponseEnvelopeFindings(graph)}
      [] key = "check_2" -> {IntegerIdFindings(graph)}
      [] key = "check_3" -> {IdKeyRouteFindings(graph)}
      [] key = "check_4" -> {HookWrappingFindings(graph)}
      [] key = "check_5" -> TypeAlignmentFindings(graph)

\* some list holds a FAIL finding
SomeFailure ==
    \E k \in Range(CheckKeys) :
        \E i \in 1..Len(violations[k]) : violations[k][i].severity = "FAIL"

\* C17: the five checks are independent and order-insensitive.  In whatever
\* order the checks are called, a check that has not run has an empty
\* findings list, a check that has run has a list that depends on the
\* loaded graph only (for check 5: one of the lists the iteration order of
\* its own set of names allows), and the exit code is 1 exactly when some
\* list holds a FAIL: the lists and the exit code are those of the order
\* of verify_all.
C17_OrderInsensitive ==
    vpc \in {"checks", "summarize", "exited"} =>
        /\ \A k \in Range(CheckKeys) :
              IF k \in Range(vRan)
              THEN violations[k] \in FindingsOf(k, vGraph)
              ELSE violations[k] = <<>>
        /\ vpc = "exited" => vExit = (IF SomeFailure THEN 1 ELSE 0)

\* the checks ran in the order 5, 3, 1, 4, 2, four of them with findings,
\* and the run exited with 1
C17_Witness ==
    /\ vpc = "exited"
    /\ vRan = <<"check_5", "check_3", "check_1", "check_4", "check_2">>
    /\ violations.check_1 # <<>>
    /\ violations.check_2 # <<>>
    /\ violations.check_3 # <<>>
    /\ violations.check_4 # <<>>
    /\ violations.check_5 # <<>>
    /\ vExit = 1

\* ======================= properties: the process_* methods in any order

\* the files of a directory from which a namespace can be extracted
WithNamespace(files) ==
    {f \in files : ~LacksNamespace(f)}

\* the tree without its namespace-less files
NamespacedTree ==
    [entities |-> WithNamespace(gTree.entities),
     dtos |-> WithNamespace(gTree.dtos),
     services |-> WithNamespace(gTree.services),
     interfaces |-> WithNamespace(gTree.interfaces),
     controllers |-> WithNamespace(gTree.controllers)]

\* the sorted listing of a directory
Sorted(files) ==
    SortedFiles(CHOOSE listing \in Listings(files) : TRUE)

\* the registries and the edge list after the calls of stages on a tree
RECURSIVE AfterStages(_, _, _)
AfterStages(state, tree, stages) ==
    IF stages = <<>> THEN state
    ELSE LET stage == Head(stages)
             dtoState == DtosFrom([dtos |-> state.dtos, edges |-> state.edges],
                                  KeySeq(state.entities), Sorted(tree.dtos))
             next ==
               CASE stage = "entities" ->
                      [state EXCEPT !.entities =
                         EntitiesFrom(state.entities, Sorted(tree.entities))]
                 [] stage = "dtos" ->
                      [state EXCEPT !.dtos = dtoState.dtos,
                                    !.edges = dtoState.edges]
                 [] stage = "services" ->
                      [state EXCEPT !.services =
                         ServicesFrom(ServicesFrom(state.services,
                                                   Sorted(tree.services)),
                                      Sorted(tree.interfaces))]
                 [] stage = "controllers" ->
                      [state EXCEPT !.controllers =
                         ControllersFrom(state.controllers,
                                         Sorted(tree.controllers))]
         IN AfterStages(next, tree, Tail(stages))

Registries ==
    [entities |-> gEntities, dtos |-> gDtos, services |-> gServices,
     controllers |-> gControllers, edges |-> gEdges]

NoRegistries ==
    [entities |-> <<>>, dtos |-> <<>>, services |-> <<>>,
     controllers |-> <<>>, edges |-> <<>>]

\* C18: after any sequence of process_entities, process_dtos,
\* process_services and process_controllers every record of every registry
\* has a non-empty namespace, and the registries and the edge list are the
\* ones the same calls build on the tree without its namespace-less files:
\* such a file adds no record and no edge, and the files sorted after it are
\* still processed.
C18_NamespaceRequired ==
    gpc = "stages" =>
        /\ \A registry \in {gEntities, gDtos, gServices, gControllers} :
              \A record \in Range(registry) :
                  record.namespace # None /\ Len(record.namespace) > 0
        /\ Registries = AfterStages(NoRegistries, NamespacedTree, gStages)

\* every method was called on a tree where, in each directory, a file sorted
\* after a namespace-less one was admitted, and a maps_to edge was added
C18_Witness ==
    /\ gpc = "stages"
    /\ gStages = <<"entities", "dtos", "controllers">>
    /\ \E f, g \in gTree.entities :
          /\ LacksNamespace(f)
          /\ PathLess(f.path, g.path)
          /\ Stem(f.path) \notin Range(KeySeq(gEntities))
          /\ Stem(g.path) \in Range(KeySeq(gEntities))
    /\ \E f, g \in gTree.controllers :
          /\ LacksNamespace(f)
          /\ PathLess(f.path, g.path)
          /\ Stem(f.path) \notin Range(KeySeq(gControllers))
          /\ Stem(g.path) \in Range(KeySeq(gControllers))
    /\ \E f, g \in gTree.dtos :
          /\ LacksNamespace(f)
          /\ PathLess(f.path, g.path)
          /\ g.content # NoContent
          /\ Range(g.content.declarations) \cap Range(KeySeq(gDtos)) # {}
    /\ gEdges # <<>>

\* ======================= properties: build_edges

\* the items build_edges visits: the elements of one list field of every
\* record of a registry, in registry order and list order
RECURSIVE ItemsOf(_, _)
ItemsOf(registry, field) ==
    IF registry = <<>> THEN <<>>
    ELSE [i \in 1..Len(Head(registry)[field]) |->
            [source |-> Head(registry).name, item |-> Head(registry)[field][i]]]
           \o ItemsOf(Tail(registry), field)

\* the positions in the service registry a controller dependency matches
ServiceMatches(dep) ==
    LET names == KeySeq(gServices)
    IN IF \E i \in 1..Len(names) : names[i] = dep
       THEN {i \in 1..Len(names) : names[i] = dep}
       ELSE {i \in 1..Len(names) :
               \/ LStripI(dep) = names[i]
               \/ <<"I">> \o names[i] = dep}

\* the positions in the DTO registry whose name the return type contains
DtoMatches(method) ==
    {i \in 1..Len(gDtos) : Contains(method.return_type, gDtos[i].name)}

\* the positions in the entity registry whose name the dependency contains
EntityMatches(dep) ==
    {i \in 1..Len(gEntities) : Contains(dep, gEntities[i].name)}

Least(S) ==
    CHOOSE i \in S : \A j \in S : i <= j

\* one edge for every item with a match, to the match of the least position
FirstMatchEdges(items, Matches(_), registry, relationship) ==
    LET matched == SelectSeq(items, LAMBDA it : Matches(it.item) # {})
    IN [i \in 1..Len(matched) |->
          [source |-> matched[i].source,
           target |-> registry[Least(Matches(matched[i].item))].name,
           relationship |-> relationship]]

EdgesOfKind(relationship) ==
    SelectSeq(gEdges, LAMBDA edge : edge.relationship = relationship)

BuiltEdges ==
    "build_edges" \in Range(gStages)

\* C19: build_edges adds, after the maps_to edges, for every controller
\* dependency, every service method and every service dependency at most one
\* edge (depends_on, returns, uses): none when no registry name matches, and
\* otherwise one edge to the first matching name in registry iteration order,
\* whatever the number of names that match.
C19_FirstMatchOnly ==
    BuiltEdges =>
        /\ gEdges = EdgesOfKind("maps_to")
                      \o FirstMatchEdges(ItemsOf(gControllers, "dependencies"),
                                         ServiceMatches, gServices, "depends_on")
                      \o FirstMatchEdges(ItemsOf(gServices, "methods"),
                                         DtoMatches, gDtos, "returns")
                      \o FirstMatchEdges(ItemsOf(gServices, "dependencies"),
                                         EntityMatches, gEntities, "uses")
        /\ Len(EdgesOfKind("depends_on")) <= Len(ItemsOf(gControllers, "dependencies"))
        /\ Len(EdgesOfKind("returns")) <= Len(ItemsOf(gServices, "methods"))
        /\ Len(EdgesOfKind("uses")) <= Len(ItemsOf(gServices, "dependencies"))

\* build_edges ran on registries where a controller dependency matches two
\* services, a return type contains two DTO names and a service dependency
\* contains two entity names, the first match not being the last registry
\* entry; and another item matches nothing
C19_Witness ==
    /\ BuiltEdges
    /\ \E it \in Range(ItemsOf(gControllers, "dependencies")) :
          Cardinality(ServiceMatches(it.item)) >= 2
    /\ \E it \in Range(ItemsOf(gServices, "methods")) :
          /\ Cardinality(DtoMatches(it.item)) >= 2
          /\ gDtos[1].name = nGroupDto
          /\ \E edge \in Range(gEdges) :
                /\ edge.relationship = "returns"
                /\ edge.source = it.source
                /\ edge.target = nGroupDto
    /\ \E it \in Range(ItemsOf(gServices, "dependencies")) :
          Cardinality(EntityMatches(it.item)) >= 2
    /\ \E it \in Range(ItemsOf(gServices, "methods")) : DtoMatches(it.item) = {}
    /\ Len(EdgesOfKind("returns")) < Len(ItemsOf(gServices, "methods"))

\* ======================= properties: tools/rag ==========================

\* a call of the embedding API or of the vector store failed while a file
\* was being processed
FileCallFailed ==
    \E i \in DOMAIN iFailures :
        /\ iFailures[i].file >= 1
        /\ iFailures[i].call \in {"embed", "delete", "upsert"}

\* C20 as stated: in a run of either script, when the embedding call or a
\* vector-store call fails while a file is being processed, the failure is
\* caught for that file and the loop goes on: the run ends with every file
\* of the list processed and exit code 0.
C20_AsStated ==
    (ipc = "exited" /\ FileCallFailed) =>
        /\ iExit = 0
        /\ Len(iCounts) = Len(iFiles)
        /\ \A i \in DOMAIN iFailures : iFailures[i].caught

\* the points of the collection whose payload has the path
PointsAt(store, rel_path) ==
    {point \in store.points : point.path = rel_path}

\* a turn of the loop of reindex-changes.py in which reindex_file returned
ReindexFileReturned ==
    /\ iScript = "reindex-changes"
    /\ ipc = "files"
    /\ Len(iCounts') = Len(iCounts) + 1

\* the embedding call of that turn raised
EmbeddingFailed ==
    iFailures' = Append(iFailures,
                        [file |-> iNext, call |-> "embed", caught |-> TRUE])

\* the points of every other path are the ones held before the call
OtherPathsUntouched ==
    \A point \in iStore.points \cup iStore'.points :
        point.path # iFiles[iNext].path
            => (point \in iStore.points <=> point \in iStore'.points)

\* C21 as stated: after reindex_file(f) returns, the index holds for the
\* path of f exactly the chunks of f's current content, and the chunks of
\* every other path are untouched.
C21_AsStated ==
    [][ReindexFileReturned =>
         /\ PointsAt(iStore', iFiles[iNext].path)
              = PointsOf(iFiles[iNext].path, chunk_file(iFiles[iNext].content))
         /\ OtherPathsUntouched]_vars

\* C21: after reindex_file(f) returns, the chunks of every other path are
\* untouched and no chunk of f's old content is left; the index holds for
\* the path of f exactly the chunks of f's current content when the
\* embedding call returned, and no chunk at all for f when it raised (the
\* old chunks are deleted before the embeddings are requested).
C21_DeleteThenRecreate ==
    [][ReindexFileReturned =>
         /\ PointsAt(iStore', iFiles[iNext].path)
              = (IF EmbeddingFailed THEN {}
                 ELSE PointsOf(iFiles[iNext].path,
                               chunk_file(iFiles[iNext].content)))
         /\ OtherPathsUntouched]_vars

\* reindex_file returned 1 for src/A.cs, whose three old chunks were in the
\* collection beside the chunk of a file that did not change: one chunk of
\* the new content is held for it and the other file's chunk is still there
C21_Witness ==
    /\ iScript = "reindex-changes"
    /\ iCounts = <<1>>
    /\ iFiles[1].path = "src/A.cs"
    /\ PointsAt(iStore, "src/A.cs") = PointsOf("src/A.cs", <<"code">>)
    /\ PointsAt(iStore, "src/Gone.cs") = PointsOf("src/Gone.cs", <<"old">>)

\* ======================= properties: the two matching directions ========

\* the DTO name d and the type name t name the same thing for the merger:
\* identical, or d is t with Dto appended, or d without its trailing Dto
\* equals t when case is ignored
Corresponds(d, t) ==
    \/ d = t
    \/ d = t \o <<"D","t","o">>
    \/ Lower(WithoutTrailingDto(d)) = Lower(t)

\* C22: after detect_inconsistencies a frontend type that some backend DTO
\* was matched to is not listed in types_without_dtos, and every frontend
\* type that is not listed there corresponds to a backend DTO that is not
\* listed in dtos_without_types.
C22_DirectionsAgree ==
    Detected =>
        /\ \A d \in LoadedDtoNames :
              MatchedTypeOf(d) # None
                => MatchedTypeOf(d) \notin Range(inconsistencies.types_without_dtos)
        /\ \A t \in LoadedTypeNames :
              t \notin Range(inconsistencies.types_without_dtos)
                => \E d \in LoadedDtoNames :
                      /\ Corresponds(d, t)
                      /\ d \notin Range(inconsistencies.dtos_without_types)

\* the DTOs ADto and aDTO are matched to the types A and adto, which are
\* found from their side through another rule, and neither list has an entry
C22_Witness ==
    /\ Detected
    /\ LoadedDtoNames = {nADto, nLowerADTO}
    /\ LoadedTypeNames = {nA, nLowerAdto}
    /\ MatchedTypeOf(nADto) = nA
    /\ MatchedTypeOf(nLowerADTO) = nLowerAdto
    /\ inconsistencies.types_without_dtos = <<>>
    /\ inconsistencies.dtos_without_types = <<>>

\* ======================= properties: the two directions of check 5 ======

\* check 5 gave the type t the WARN 'Frontend type has no corresponding
\* backend DTO'
NoDtoWarning(t) ==
    ContractViolation("Check 5", "WARN", t, "no_backend_dto")
        \in Range(violations.check_5)

\* C23 as stated: after check 5 a frontend type that a checked backend DTO
\* was matched to in the DTO-to-type direction does not carry the WARN
\* 'Frontend type has no corresponding backend DTO'.
C23_AsStated ==
    Checked5 =>
        \A d \in VerifiedDtoNames :
            ~SkippedByCheck5(d) =>
                \A t \in Verifier_FindMatchingType(d, VerifiedTypeNames) :
                    ~NoDtoWarning(t)

\* ======================= properties: the verifier on the merger's output

\* the merger saved its graph
Saved ==
    mOutput # NotWritten

\* the verifier was started on the merger's output
VerifierStarted ==
    vpc # "idle"

\* C24: a graph the merger saved holds the sections controllers, dtos,
\* components and hooks whatever sections the two input graphs held, the
\* verifier reads that graph, and its load step does not exit with code 2.
C24_MergedGraphLoads ==
    Saved =>
        /\ RequiredSections \subseteq mOutput.present
        /\ VerifierStarted =>
              /\ vGraph = mOutput
              /\ IF vpc = "exited" THEN vExit \in {0, 1}
                 ELSE vExit = NoExit

\* both input files were the JSON object {}, the merger saved its graph and
\* the verifier went past its load step and ran to the end
C24_Witness ==
    /\ Saved
    /\ mDisk.backend.graph = EmptyDict
    /\ mDisk.frontend.graph = EmptyDict
    /\ vpc = "exited"
    /\ vRan = CheckKeys
    /\ vExit = 0

MapsToEdgesOf(edges) ==
    {edges[i] : i \in {j \in 1..Len(edges) :
                         edges[j].relationship = "maps_to"}}

\* the names of the manual table whose target is neither System nor an
\* entity of the registry
AbsentManualTargets ==
    {dto_name \in DOMAIN manual_mappings :
       /\ manual_mappings[dto_name] # sSystem
       /\ manual_mappings[dto_name] \notin Keys(gEntities)}

\* C26: after generate(), every maps_to edge (s, t) has s a key of the DTO
\* registry, dtos[s].linked_entity = t, and t a key of the entity registry
\* or the marker System; a name of the manual table whose target is not in
\* the registry and is not System has no edge and no link to that target.
C26_MapsToWellFormed ==
    gpc \in {"return", "done"} =>
      /\ \A edge \in MapsToEdgesOf(gEdges) :
           /\ edge.source \in Keys(gDtos)
           /\ Lookup(gDtos, edge.source).linked_entity = edge.target
           /\ edge.target \in Keys(gEntities) \/ edge.target = sSystem
      /\ \A dto_name \in AbsentManualTargets :
           /\ EdgeCount(gEdges, dto_name, manual_mappings[dto_name],
                        "maps_to") = 0
           /\ dto_name \in Keys(gDtos) =>
                Lookup(gDtos, dto_name).linked_entity
                  # manual_mappings[dto_name]

\* LoginRequest, whose manual target UserSession is no entity, is
\* registered without a link, next to a DTO linked to System by the manual
\* table and a DTO linked to an entity of the registry
C26_Witness ==
    /\ gpc = "done"
    /\ nLoginRequest \in Keys(gDtos) \cap AbsentManualTargets
    /\ Lookup(gDtos, nLoginRequest).linked_entity = None
    /\ MapsToCount(gEdges, nLoginRequest) = 0
    /\ EdgeCount(gEdges, nGlobalSearchResultDto, sSystem, "maps_to") = 1
    /\ EdgeCount(gEdges, nCreateGroupRequest, nGroup, "maps_to") = 1
    /\ nGroup \in Keys(gEntities)

\* the merged graph without its generated_at
WithoutGeneratedAt(graph) ==
    [k \in DOMAIN graph \ {"generated_at"} |-> graph[k]]

\* C27: detect_inconsistencies changes only the four lists, merge changes
\* only merged_graph, neither changes the loaded graphs; whichever of the
\* two is called first, the lists are those of detect_inconsistencies on
\* the loaded graphs and the merged graph is that of merge on the loaded
\* graphs, generated_at aside.
C27_Independent ==
    mpc = "calls" =>
      /\ backend_graph = mDisk.backend.graph
      /\ frontend_graph = mDisk.frontend.graph
      /\ inconsistencies =
           (IF "detect" \in Range(mPhases)
            THEN [k \in DOMAIN NoInconsistencies |->
                    DetectedInconsistencies(mDisk.backend.graph,
                                            mDisk.frontend.graph)[k]]
            ELSE NoInconsistencies)
      /\ IF "merge" \in Range(mPhases)
         THEN WithoutGeneratedAt(merged_graph)
                = WithoutGeneratedAt(Merge(mDisk.backend.graph,
                                           mDisk.frontend.graph, 0))
         ELSE merged_graph = EmptyDict

\* merge was called after detect_inconsistencies had extended each of the
\* four lists, on graphs with a DTO that has a frontend type and with one
\* edge each
C27_Witness ==
    /\ mPhases = <<"load", "detect", "merge">>
    /\ \A k \in DOMAIN inconsistencies : inconsistencies[k] # <<>>
    /\ merged_graph.cross_layer_mappings # <<>>
    /\ Len(merged_graph.edges) = 2

\* the other order reaches a state with the same lists and merged graph
C27_WitnessMergeFirst ==
    /\ mPhases = <<"load", "merge", "detect">>
    /\ \A k \in DOMAIN inconsistencies : inconsistencies[k] # <<>>
    /\ merged_graph.cross_layer_mappings # <<>>
    /\ Len(merged_graph.edges) = 2

\* the stages of generate() in the order of its calls
StageOrder ==
    <<"entities", "dtos", "services", "controllers", "build_edges">>

\* the class names of the entity files process_entities does not skip
AdmittedEntityNames ==
    {Stem(f.path) :
       f \in {g \in gTree.entities :
                /\ ~IsInterfaceName(Stem(g.path))
                /\ g.content # NoContent
                /\ ExtractNamespace(g.content) # None}}

\* C28: generate() runs the stages once each in the order entities, DTOs,
\* services, controllers, build_edges; from the end of the entity stage the
\* entity registry holds every entity the run admits, so every DTO is
\* linked by the inference over that complete registry; and the edges
\* build_edges adds are those of the final four registries.
C28_StagesInOrder ==
    /\ Len(gStages) <= Len(StageOrder)
    /\ gStages = SubSeq(StageOrder, 1, Len(gStages))
    /\ gpc \in {"return", "done"} => gStages = StageOrder
    /\ "entities" \in Range(gStages) => Keys(gEntities) = AdmittedEntityNames
    /\ \A i \in 1..Len(gDtos) :
         gDtos[i].linked_entity
           = InferEntityFromDtoName(KeySeq(gEntities), gDtos[i].name)
    /\ gpc \in {"return", "done"} =>
         gEdges = EdgesOfKind("maps_to")
                    \o DependsOnEdges(gControllers, KeySeq(gServices))
                    \o ReturnsEdges(gServices, KeySeq(gDtos))
                    \o UsesEdges(gServices, KeySeq(gEntities))
    /\ gpc = "done" =>
         /\ gGraph.entities = gEntities /\ gGraph.dtos = gDtos
         /\ gGraph.services = gServices
         /\ gGraph.controllers = gControllers
         /\ gGraph.edges = gEdges

\* a finished run in which a DTO is linked to an entity of the last
\* entity file, and build_edges added an edge of each kind
C28_Witness ==
    /\ gpc = "done"
    /\ gStages = StageOrder
    /\ Len(gEntities) = 2
    /\ \E i \in 1..Len(gDtos) :
         gDtos[i].linked_entity = gEntities[Len(gEntities)].name
    /\ \A kind \in {"maps_to", "depends_on", "returns", "uses"} :
         EdgesOfKind(kind) # <<>>

\* the routes a third call is made with
ThirdRoutes ==
    {RouteText(pieces) : pieces \in RelationInputs}

\* the form _routes_match compares last: // replaced by /, the slashes at
\* both ends stripped, every placeholder replaced by {param}
RouteNormalForm(route) ==
    route_to_pattern(NormalizeRoute(route))

\* C29: _routes_match is an equivalence relation on route strings: the call
\* returns TRUE exactly when the two normal forms are equal, every route
\* matches itself, the call with the arguments exchanged returns the same,
\* and a route that matches one of two matching routes matches the other.
C29_Equivalence ==
    rpc = "returned" =>
      LET a == RouteText(rBackend)
          b == RouteText(rFrontend)
      IN /\ rResult = (RouteNormalForm(a) = RouteNormalForm(b))
         /\ RoutesMatch(a, a) /\ RoutesMatch(b, b)
         /\ rResult = RoutesMatch(b, a)
         /\ rResult = TRUE =>
              \A c \in ThirdRoutes :
                RoutesMatch(b, c) <=> RoutesMatch(a, c)

\* /{id} and {idKey}// match, differ as strings, and both match a third
\* route {id}/ that differs from each
C29_Witness ==
    /\ rpc = "returned"
    /\ rResult = TRUE
    /\ RouteText(rBackend) = <<"/","{","i","d","}">>
    /\ RouteText(rFrontend) = <<"{","i","d","K","e","y","}","/","/">>
    /\ <<"{","i","d","}","/">> \in ThirdRoutes
    /\ RoutesMatch(RouteText(rFrontend), <<"{","i","d","}","/">>)
    /\ RoutesMatch(RouteText(rBackend), <<"{","i","d","}","/">>)

\* the name without its last three characters
BaseName(dto_name) ==
    SubSeq(dto_name, 1, Len(dto_name) - 3)

\* the positions of the entity registry whose name is a proper prefix of
\* the base name
ProperPrefixes(base_name) ==
    {i \in 1..Len(gEntities) :
       /\ StartsWith(base_name, gEntities[i].name)
       /\ gEntities[i].name # base_name}

\* the entity files process_entities admits, in path order
AdmittedEntityFiles ==
    SelectSeq(SortedFiles(CHOOSE listing \in Listings(gTree.entities) : TRUE),
              LAMBDA f : Stem(f.path) \in AdmittedEntityNames)

\* C30: a DTO whose name ends in Dto, is not in the manual table and has a
\* base name that is no entity name is linked to the first entity, in
\* registry order, whose name is a proper prefix of the base name (to none
\* when there is no such entity), and the registry order is the sorted
\* order of the entity files; with Group and GroupMember both entities,
\* GroupMemberSummaryDto is linked to Group, not to the longer GroupMember.
C30_FirstPrefix ==
    "dtos" \in Range(gStages) =>
      /\ KeySeq(gEntities)
           = [i \in 1..Len(AdmittedEntityFiles) |->
                Stem(AdmittedEntityFiles[i].path)]
      /\ \A i \in 1..Len(gDtos) :
           LET dto == gDtos[i]
           IN (/\ EndsWith(dto.name, sDto)
               /\ dto.name \notin DOMAIN manual_mappings
               /\ BaseName(dto.name) \notin Keys(gEntities))
              => dto.linked_entity
                   = (IF ProperPrefixes(BaseName(dto.name)) = {} THEN None
                      ELSE gEntities[Least(ProperPrefixes(
                                             BaseName(dto.name)))].name)
      /\ (/\ nGroup \in Keys(gEntities)
          /\ nGroupMember \in Keys(gEntities)
          /\ nGroupMemberSummaryDto \in Keys(gDtos))
         => Lookup(gDtos, nGroupMemberSummaryDto).linked_entity = nGroup

\* Group and GroupMember are the entities, in this order, and
\* GroupMemberSummaryDto has its one maps_to edge to Group
C30_Witness ==
    /\ gpc = "done"
    /\ KeySeq(gEntities) = <<nGroup, nGroupMember>>
    /\ Cardinality(ProperPrefixes(BaseName(nGroupMemberSummaryDto))) = 2
    /\ nGroupMemberSummaryDto \in Keys(gDtos)
    /\ Lookup(gDtos, nGroupMemberSummaryDto).linked_entity = nGroup
    /\ EdgeCount(gEdges, nGroupMemberSummaryDto, nGroup, "maps_to") = 1
    /\ MapsToCount(gEdges, nGroupMemberSummaryDto) = 1

====
